---- MODULE Spec2Model ----
(***************************************************************************)
(* Model of the BOSA e-invoicing scraper: the Post store and its merge     *)
(* (src/src/utils/supabaseStorage.js), the page cache, change detector,    *)
(* crawler and scrape orchestrator (src/src/utils/pageCache.js) and the    *)
(* run triggers of the dashboard (src/src/App.jsx).                        *)
(*                                                                         *)
(* Time is counted in hours.  The code works in milliseconds and in ISO    *)
(* strings; Date.now(), toISOString() and new Date(iso).getTime() are      *)
(* exact on the instants the program produces, so an instant is one        *)
(* integer here and the three conversions do not change it.                *)
(***************************************************************************)
EXTENDS Integers, Sequences, FiniteSets, TLC

(***************************************************************************)
(* Bounds of the model.                                                    *)
(***************************************************************************)
MaxCands == 2        \* longest candidate list handed to addNewPosts
MaxCalls == 2        \* addNewPosts calls in one behaviour of SpecPosts
MaxRuns == 2         \* scrapeBOSAWebsite runs in one behaviour of SpecRun
MaxDepthChoice == 2  \* largest maxDepth handed to crawlWebsite in SpecCrawl
MaxLinks == 2        \* most a[href] elements on one page in SpecCrawl
MaxSelUrls == 2      \* longest URL list handed to getPagesToRescrape
MaxInFlight == 2     \* runs one trigger has in flight in SpecApp
MaxLeaked == 2       \* pending timeouts set from inside a timer callback
MaxMerges == 3       \* addNewPosts calls in one behaviour of SpecAging
MaxOverCap == 2      \* pages of the largest site of SpecCap beyond the
                     \* 20 that an incremental run analyses
NumCallers == 2      \* concurrent callers of verifyWithLLM in SpecOracle
MaxVerifications == 2  \* verifyWithLLM calls of one caller in SpecOracle
ClockStepMs == 100   \* ms between two instants of the clock of SpecOracle
MaxClockSteps == 8   \* instants of the clock of SpecOracle after the first
MaxWords == 3        \* words of a text handed to containsEInvoicingKeywords
MaxPhrases == 2      \* phrases of the content of an item handed to the
                     \* verification

(***************************************************************************)
(* Program constants.                                                      *)
(***************************************************************************)
GraceHours == 24     \* 24 * 60 * 60 * 1000 ms, the New -> Existing window
HoursPerDay == 24    \* maxAgeDays * 24 * 60 * 60 * 1000
HashPrefixLen == 5000       \* content.substring(0, 5000)
BatchSize == 500            \* const batchSize = 500
IncrementalMaxDepth == 2    \* isIncrementalMode ? 2 : 5
FullMaxDepth == 5
IncrementalMaxAgeDays == 7  \* isIncrementalMode ? 7 : 30
FullMaxAgeDays == 30
IncrementalPageCap == 20    \* rescrapeInfo.newPages.slice(0, 20)
HttpOk == 200               \* httpStatus: 200
CrawlDelayMs == 300         \* setTimeout(resolve, 300) of crawlWebsite
AnalysisDelayMs == 200      \* setTimeout(resolve, 200) of the analysis loop
LLM_DELAY == 500            \* const LLM_DELAY = 500
ShortContent == 50          \* content.length < 50

(***************************************************************************)
(* Universes.                                                              *)
(***************************************************************************)
PostUrlSeq == <<"p1", "p2">>
PostUrls == {PostUrlSeq[i] : i \in 1..Len(PostUrlSeq)}
Titles == {"t1", "t2"}
PageUrlSeq == <<"A", "B", "C", "D">>
PageUrls == {PageUrlSeq[i] : i \in 1..Len(PageUrlSeq)}
BaseUrl == PageUrlSeq[1]    \* const baseUrl = 'https://bosa.belgium.be/en'
Htmls == {<<1>>, <<1, 2>>}  \* page contents, as sequences of char codes
\* An a[href] of a page: the page it points to and the form of the href: a
\* plain page URL, a page URL with a query string, or a file (.pdf, ...).
LinkKinds == {"page", "query", "file"}
\* Instants, in hours: around the 7 and the 30 days of getPagesToRescrape.
Times == {0, 1, 168, 169, 720, 721}

Rank(u) == CHOOSE i \in 1..Len(PostUrlSeq) : PostUrlSeq[i] = u
\* The pages of a site with more pages than one incremental run analyses.
SiteUrlSeq ==
  PageUrlSeq \o <<"P05", "P06", "P07", "P08", "P09", "P10", "P11", "P12", "P13", "P14",
                  "P15", "P16", "P17", "P18", "P19", "P20", "P21", "P22", "P23", "P24">>
PageRank(u) == CHOOSE i \in 1..Len(SiteUrlSeq) : SiteUrlSeq[i] = u

Min(a, b) == IF a <= b THEN a ELSE b

\* s.slice(0, n)
Take(s, n) == SubSeq(s, 1, Min(n, Len(s)))

\* The empty Map / object.
EmptyMap == [u \in {} |-> 0]

\* map.set(k, v)
MapSet(m, k, v) == [x \in DOMAIN m \cup {k} |-> IF x = k THEN v ELSE m[x]]

Range(s) == {s[i] : i \in 1..Len(s)}

\* JavaScript's  a || b  on strings: the empty string is falsy.
OrElse(a, b) == IF a = "" THEN b ELSE a

VARIABLES
  app,            \* the state of the App component and its timers
  env,            \* the world of one behaviour: the links and the posts the
                  \* pages of the site can show, their contents, the
                  \* backends that can fail, the modes runs are started in
                  \* and the instants at which the clock is read
  now,            \* the wall clock (Date.now())
  sbEnabled,      \* isSupabaseEnabled(): the client was configured
  sbPosts,        \* table einvoicing_posts: a set of rows
  lsPosts,        \* localStorage[bosa_einvoicing_data_json]: a JSON array
  sbCache,        \* table page_cache: a set of rows
  lsCache,        \* localStorage[bosa_page_cache]: an object keyed by URL
  mergeLog,       \* observer: the last addNewPosts call and the arguments of
                  \* the call before it
  pc,             \* position of the scrapeBOSAWebsite call and its caller
  mode,           \* isIncrementalMode
  cacheMap,       \* the in-memory Map of scrapeBOSAWebsite
  visitedUrls,    \* Set of Post URLs loaded when the run started
  maxDepth,       \* crawlWebsite: maxDepth
  toVisit,        \* crawlWebsite: FIFO frontier of {url, depth}
  visited,        \* crawlWebsite: the visited Set, in insertion order
  allLinks,       \* crawlWebsite: every URL ever put in the frontier
  linkGraph,      \* observer: the links each fetched page gave the crawl
  fetches,        \* observer: crawl fetches per URL
  rescrapeInfo,   \* result of getPagesToRescrape
  pagesToCheck,   \* URLs selected for analysis
  analyzed,       \* loop counter of the analysis loop
  seenInThisScrape,
  allPosts,       \* candidates collected by the run
  selInput,       \* arguments of a direct getPagesToRescrape call
  llm,            \* the rate limiter of verifyWithLLM: lastLLMCall, the clock in
                  \* ms and the calls under way
  callLog,        \* observer: the last direct calls of the storage and
                  \* cache functions, their arguments and their results
  netLog,         \* observer: the requests a run sent to the site and the
                  \* delays between them
  runObs,         \* observer of the current run: the pages it went through and
                  \* what scrapePage returned for each
  cacheObs        \* observer: lastScraped per URL as loadPageCache last
                  \* returned it, and the URLs for which it went down

storeVars == <<sbEnabled, sbPosts, lsPosts, sbCache, lsCache>>
crawlVars == <<maxDepth, toVisit, visited, allLinks, linkGraph, fetches>>
runVars == <<mode, cacheMap, visitedUrls, rescrapeInfo, pagesToCheck, analyzed,
             seenInThisScrape, allPosts, runObs, cacheObs>>
vars == <<app, env, now, sbEnabled, sbPosts, lsPosts, sbCache, lsCache, mergeLog, pc, mode,
          cacheMap, visitedUrls, maxDepth, toVisit, visited, allLinks, linkGraph,
          fetches, rescrapeInfo, pagesToCheck, analyzed, seenInThisScrape, allPosts,
          selInput, llm, callLog, netLog, runObs, cacheObs>>

(***************************************************************************)
(* Post store: supabaseStorage.js                                          *)
(***************************************************************************)

\* A candidate item as parseHTMLContent pushes it.
Candidate(u, t) == [url |-> u, title |-> t, content |-> "c", publicationDate |-> "d"]

\* data.map(row => ({...})) of loadAllPosts: Supabase row -> app format.
RowToPost(row) ==
  [pub     |-> OrElse(row.publication_date, "created_at"),
   url     |-> row.post_url,
   title   |-> row.post_title,
   summary |-> OrElse(row.content_summary, ""),
   ts      |-> row.scrape_timestamp,
   status  |-> OrElse(row.status, "Existing")]

\* posts.map(post => ({...})) of savePosts: app format -> Supabase row.
\* Every post the program builds carries a Scrape Timestamp, so the
\* "|| new Date().toISOString()" default is never taken.
PostToRow(post) ==
  [post_url         |-> post.url,
   post_title       |-> post.title,
   publication_date |-> post.pub,
   content_summary  |-> OrElse(post.summary, ""),
   scrape_timestamp |-> post.ts,
   status           |-> OrElse(post.status, "Existing")]

RECURSIVE OrderRows(_)
\* .order('scrape_timestamp', { ascending: false }); rows with equal
\* timestamps come in the order of PostUrlSeq.
OrderRows(rows) ==
  IF rows = {} THEN <<>>
  ELSE LET first == CHOOSE r \in rows : \A q \in rows :
                        \/ r.scrape_timestamp > q.scrape_timestamp
                        \/ /\ r.scrape_timestamp = q.scrape_timestamp
                           /\ Rank(r.post_url) <= Rank(q.post_url)
       IN <<first>> \o OrderRows(rows \ {first})

loadFromLocalStorage(ls) == ls

\* loadAllPosts: the table when Supabase is enabled and the query
\* succeeds, the localStorage array otherwise.
loadAllPosts(enabled, outcome, tbl, ls) ==
  IF enabled /\ outcome = "ok"
  THEN LET rows == OrderRows(tbl) IN [i \in 1..Len(rows) |-> RowToPost(rows[i])]
  ELSE loadFromLocalStorage(ls)

HasDuplicateUrl(posts) ==
  \E i, j \in 1..Len(posts) : i # j /\ posts[i].url = posts[j].url

\* .upsert(rows, { onConflict: 'post_url', ignoreDuplicates: false }):
\* every row of the batch replaces the row with its post_url or is inserted.
Upsert(tbl, posts) ==
  {r \in tbl : \A i \in 1..Len(posts) : posts[i].url # r.post_url}
    \cup {PostToRow(posts[i]) : i \in 1..Len(posts)}

\* The outcomes the upsert request can have.  post_url is UNIQUE; one
\* INSERT ... ON CONFLICT DO UPDATE cannot touch a row twice, so a batch
\* that repeats a post_url is answered with an error.
UpsertOutcomes(posts) == IF HasDuplicateUrl(posts) THEN {"error"} ELSE {"ok", "error"}

\* The table after savePosts(posts).
savePostsTable(enabled, outcome, tbl, posts) ==
  IF enabled /\ outcome = "ok" THEN Upsert(tbl, posts) ELSE tbl

\* saveToLocalStorage: setItem can throw (quota); the catch block logs.
saveToLocalStorage(ls, posts, lsOk) == IF lsOk THEN posts ELSE ls

\* savePosts calls saveToLocalStorage(posts) on each of its three paths.
savePostsLocal(ls, posts, lsOk) == saveToLocalStorage(ls, posts, lsOk)

RECURSIVE NewEntries(_, _, _, _)
\* The for-loop of addNewPosts over newPosts[i..]: a candidate whose url is
\* not in existingUrls becomes an entry with Status New.  existingUrls is
\* built once from the loaded posts and is not extended by the loop.
NewEntries(newPosts, existingUrls, t, i) ==
  IF i > Len(newPosts) THEN <<>>
  ELSE (IF newPosts[i].url \notin existingUrls
        THEN <<[pub     |-> newPosts[i].publicationDate,
                url     |-> newPosts[i].url,
                title   |-> newPosts[i].title,
                summary |-> OrElse(newPosts[i].content, ""),
                ts      |-> t,
                status  |-> "New"]>>
        ELSE <<>>) \o NewEntries(newPosts, existingUrls, t, i + 1)

\* A sweep that leaves every status as it is.
AgeStatusNever(entry, t) == entry

\* updatedData.forEach(...): a New entry whose Scrape Timestamp is before
\* now - 24 h becomes Existing.
AgeStatus(entry, t) ==
  IF entry.status = "New" /\ entry.ts < t - GraceHours
  THEN [entry EXCEPT !.status = "Existing"]
  ELSE entry

\* addNewPosts between its load and its save.
addNewPosts(existingPosts, newPosts, t) ==
  LET existingUrls == {existingPosts[i].url : i \in 1..Len(existingPosts)}
      newEntries   == NewEntries(newPosts, existingUrls, t, 1)
      combined     == existingPosts \o newEntries
      updatedData  == [i \in 1..Len(combined) |-> AgeStatus(combined[i], t)]
  IN [newPosts    |-> newEntries,
      updatedData |-> updatedData,
      stats       |-> [total    |-> Len(updatedData),
                       new      |-> Len(newEntries),
                       existing |-> Len(existingPosts)]]

\* getVisitedUrls: the set of Post URLs of loadAllPosts().
getVisitedUrls(posts) == {posts[i].url : i \in 1..Len(posts)}

NoMergeLog == [n |-> 0, prevCands |-> <<>>, cands |-> <<>>, known |-> {},
               newPosts |-> <<>>, merged |-> <<>>, at |-> 0,
               stats |-> [total |-> 0, new |-> 0, existing |-> 0]]

\* The outcomes a request to a backend of the given kind can have in the
\* environment at hand: env.faults names the backends that can fail.
RequestOutcomes(kind) == IF kind \in env.faults THEN {"ok", "error"} ELSE {"ok"}

\* Whether localStorage.setItem succeeds (it throws when the quota is hit).
SetItemOutcomes(kind) == IF kind \in env.faults THEN BOOLEAN ELSE {TRUE}

\* One whole call of addNewPosts(cands): load, merge, save.
AddNewPostsCall(cands) ==
  \E loadOutcome \in RequestOutcomes("posts"), lsOk \in SetItemOutcomes("posts") :
    LET existingPosts == loadAllPosts(sbEnabled, loadOutcome, sbPosts, lsPosts)
        result        == addNewPosts(existingPosts, cands, now)
    IN \E saveOutcome \in {o \in UpsertOutcomes(result.updatedData) :
                              \/ o \in RequestOutcomes("posts")
                              \/ HasDuplicateUrl(result.updatedData)} :
         /\ sbPosts' = savePostsTable(sbEnabled, saveOutcome, sbPosts, result.updatedData)
         /\ lsPosts' = savePostsLocal(lsPosts, result.updatedData, lsOk)
         /\ mergeLog' = [n         |-> mergeLog.n + 1,
                          prevCands |-> mergeLog.cands,
                          cands     |-> cands,
                          known     |-> getVisitedUrls(existingPosts),
                          newPosts  |-> result.newPosts,
                          merged    |-> result.updatedData,
                          at        |-> now,
                          stats     |-> result.stats]

(***************************************************************************)
(* Page cache: pageCache.js                                                *)
(***************************************************************************)

\* hash = ((hash << 5) - hash) + char; hash = hash & hash: 31 * hash + char
\* brought back to a signed 32-bit integer.  The product is taken on the two
\* 16-bit halves of hash, so that no intermediate value leaves 32 bits.
HashStep(hash, char) ==
  LET lo   == hash % 65536
      hi   == (hash \div 65536) % 65536
      low  == 31 * lo + char
      high == (31 * hi + (low \div 65536)) % 65536
  IN IF high >= 32768 THEN (high - 65536) * 65536 + (low % 65536)
     ELSE high * 65536 + (low % 65536)

RECURSIVE HashOver(_, _, _, _)
\* The iterations of the loop of generateContentHash for the characters
\* from to to, in order: those of the first half, then those of the second
\* (the test on left has the first half computed before the second starts).
HashOver(str, from, to, hash) ==
  IF from > to THEN hash
  ELSE IF from = to THEN HashStep(hash, str[from])
  ELSE LET mid  == (from + to) \div 2
           left == HashOver(str, from, mid, hash)
       IN IF left = left THEN HashOver(str, mid + 1, to, left) ELSE hash

\* The loop of generateContentHash over str[i..].
HashFrom(str, i, hash) == HashOver(str, i, Len(str), hash)

\* The hash of the whole content, whatever its length.
generateContentHashWhole(content) == HashFrom(content, 1, 0)

\* generateContentHash: the hash of the first 5000 characters; toString(36)
\* is one-to-one, so the number stands for the string.
generateContentHash(content) == HashFrom(Take(content, HashPrefixLen), 1, 0)

\* A row of page_cache as loadPageCache turns it into a Map value.
RowToEntry(page) ==
  [url                  |-> page.page_url,
   title                |-> page.page_title,
   lastScraped          |-> page.last_scraped,
   contentHash          |-> page.content_hash,
   hasEInvoicingContent |-> page.has_einvoicing_content,
   postsCount           |-> page.einvoicing_posts_count,
   lastModified         |-> page.last_modified,
   httpStatus           |-> page.http_status]

\* A row that leaves out what the analysis found on the page.
EntryToRowBare(url, meta) ==
  [page_url               |-> url,
   page_title             |-> "",
   last_scraped           |-> meta.lastScraped,
   content_hash           |-> meta.contentHash,
   has_einvoicing_content |-> FALSE,
   einvoicing_posts_count |-> 0,
   last_modified          |-> meta.lastModified,
   http_status            |-> meta.httpStatus]

\* A Map entry as savePageCache turns it into a row.  Every entry the
\* program writes has lastScraped, contentHash and httpStatus set, so the
\* "||" defaults of these three fields are never taken.
EntryToRow(url, meta) ==
  [page_url               |-> url,
   page_title             |-> OrElse(meta.title, ""),
   last_scraped           |-> meta.lastScraped,
   content_hash           |-> meta.contentHash,
   has_einvoicing_content |-> meta.hasEInvoicingContent,
   einvoicing_posts_count |-> meta.postsCount,
   last_modified          |-> meta.lastModified,
   http_status            |-> meta.httpStatus]

\* What localStorage[bosa_page_cache] holds when its text is not the JSON of
\* an object: JSON.parse or Object.entries throws on it.
UnreadableData == [u \in {"not JSON"} |-> "not JSON"]

\* An exception that leaves a function, where a Map was expected.
Thrown == [u \in {"exception"} |-> "exception"]

\* loadPageCacheFromLocalStorage with the exception of an unreadable value
\* left uncaught.
ReadCatchNone == Thrown

\* loadPageCacheFromLocalStorage: catch (error) { ...; return new Map(); }
ReadCatch == EmptyMap

\* loadPageCacheFromLocalStorage: new Map(Object.entries(data)), or an
\* empty Map when the key is absent or its value is unreadable.
loadPageCacheFromLocalStorage(ls) == IF ls = UnreadableData THEN ReadCatch ELSE ls

\* loadPageCache: the rows of the table when Supabase is enabled and the
\* query succeeds, the localStorage object otherwise.
loadPageCache(enabled, outcome, tbl, ls) ==
  IF enabled /\ outcome = "ok"
  THEN [u \in {r.page_url : r \in tbl} |->
          RowToEntry(CHOOSE r \in tbl : r.page_url = u)]
  ELSE loadPageCacheFromLocalStorage(ls)

RECURSIVE OrderUrls(_)
\* The keys of a Map as a list.
OrderUrls(urls) ==
  IF urls = {} THEN <<>>
  ELSE LET first == CHOOSE u \in urls : \A v \in urls : PageRank(u) <= PageRank(v)
       IN <<first>> \o OrderUrls(urls \ {first})

\* for (let i = 0; i < pages.length; i += batchSize): the list of batches,
\* each a set of rows.
RECURSIVE Batches(_, _, _)
Batches(m, urls, i) ==
  IF i >= Len(urls) THEN <<>>
  ELSE <<{EntryToRow(urls[k], m[urls[k]]) : k \in (i + 1)..Min(i + BatchSize, Len(urls))}>>
         \o Batches(m, urls, i + BatchSize)

\* A plain insert that keeps the row a batch conflicts with.
InsertPages(tbl, batch) == tbl \cup batch

\* .upsert(batch, { onConflict: 'page_url' })
UpsertPages(tbl, batch) ==
  {r \in tbl : \A b \in batch : b.page_url # r.page_url} \cup batch

RECURSIVE UpsertBatches(_, _, _, _)
\* The batch loop: a batch whose request returns an error is logged and
\* skipped; a request that throws ends the loop (the catch block).
UpsertBatches(tbl, batches, outcomes, i) ==
  IF i > Len(batches) THEN tbl
  ELSE IF outcomes[i] = "throw" THEN tbl
  ELSE UpsertBatches(IF outcomes[i] = "ok" THEN UpsertPages(tbl, batches[i]) ELSE tbl,
                     batches, outcomes, i + 1)

\* The table after savePageCache(m).
savePageCacheTable(enabled, outcomes, tbl, m) ==
  IF enabled THEN UpsertBatches(tbl, Batches(m, OrderUrls(DOMAIN m), 0), outcomes, 1)
  ELSE tbl

\* savePageCacheToLocalStorage: setItem can throw; the catch block logs.
\* savePageCache calls it on each of its three paths.
savePageCacheToLocalStorage(ls, m, lsOk) == IF lsOk THEN m ELSE ls

\* updateCacheEntry(cacheMap, url, content, metadata) at instant t.
updateCacheEntry(m, url, content, metadata, t) ==
  MapSet(m, url,
         [url                  |-> url,
          title                |-> OrElse(metadata.title, ""),
          lastScraped          |-> t,
          contentHash          |-> generateContentHash(content),
          hasEInvoicingContent |-> metadata.hasEInvoicingContent,
          postsCount           |-> metadata.postsCount,
          lastModified         |-> "null",
          httpStatus           |-> metadata.httpStatus])

\* hasPageChanged(cacheMap, url, newContent)
hasPageChanged(m, url, newContent) ==
  IF url \notin DOMAIN m THEN TRUE
  ELSE m[url].contentHash # generateContentHash(newContent)

\* A test that takes a page of exactly the maximum age for stale.
NeedsRescrapeAtAge(m, url, maxAgeDays, t) ==
  \/ url \notin DOMAIN m
  \/ t - m[url].lastScraped >= maxAgeDays * HoursPerDay

\* The test of getPagesToRescrape for one URL: absent, or age > maxAgeMs.
NeedsRescrape(m, url, maxAgeDays, t) ==
  \/ url \notin DOMAIN m
  \/ t - m[url].lastScraped > maxAgeDays * HoursPerDay

RECURSIVE Partition(_, _, _, _, _, _)
\* The for-loop of getPagesToRescrape over allPageUrls[i..].
Partition(m, urls, maxAgeDays, t, i, want) ==
  IF i > Len(urls) THEN <<>>
  ELSE (IF NeedsRescrape(m, urls[i], maxAgeDays, t) = want THEN <<urls[i]>> ELSE <<>>)
         \o Partition(m, urls, maxAgeDays, t, i + 1, want)

\* (cachedPages.length / allPageUrls.length * 100).toFixed(1) + '%', in
\* tenths of a percent; 0 / 0 is NaN.
HitRate(cached, total) ==
  IF total = 0 THEN [nan |-> TRUE, tenths |-> 0]
  ELSE [nan |-> FALSE, tenths |-> (cached * 2000 + total) \div (2 * total)]

\* A selection that takes every page for new, whatever the cache holds.
getPagesToRescrapeAll(m, urls, maxAgeDays, t) ==
  [newPages     |-> urls,
   cachedPages  |-> <<>>,
   totalPages   |-> Len(urls),
   cacheHitRate |-> HitRate(0, Len(urls))]

\* getPagesToRescrape(cacheMap, allPageUrls, maxAgeDays) at instant t.
getPagesToRescrape(m, urls, maxAgeDays, t) ==
  LET newPages    == Partition(m, urls, maxAgeDays, t, 1, TRUE)
      cachedPages == Partition(m, urls, maxAgeDays, t, 1, FALSE)
  IN [newPages     |-> newPages,
      cachedPages  |-> cachedPages,
      totalPages   |-> Len(urls),
      cacheHitRate |-> HitRate(Len(cachedPages), Len(urls))]

(***************************************************************************)
(* Relevance: containsEInvoicingKeywords and verifyWithAlternativeLLM.     *)
(* A text is the sequence of its UTF-16 code units.                        *)
(***************************************************************************)
\* \w of a regular expression without the u flag: [A-Za-z0-9_]
WordChars == (48..57) \cup (65..90) \cup {95} \cup (97..122)

\* \s of a regular expression
WhiteSpace ==
  {9, 10, 11, 12, 13, 32, 160, 5760, 8232, 8233, 8239, 8287, 12288, 65279}
    \cup (8192..8202)

\* The elements of the regular expressions of the program: \b, [\s-]?, a
\* run of literal characters and a character class.
B == [k |-> "b"]
Sep == [k |-> "sep"]
L(s) == [k |-> "lit", s |-> s]
Cls(s) == [k |-> "cls", s |-> s]

\* String.prototype.toLowerCase on one code unit of the Basic Latin and
\* Latin-1 blocks, which hold every letter of the texts at hand.
LowerChar(c) ==
  IF c \in 65..90 \/ (c \in 192..222 /\ c # 215) THEN c + 32 ELSE c

\* text.toLowerCase()
toLowerCase(text) == [i \in 1..Len(text) |-> LowerChar(text[i])]

\* text.includes(s)
includes(text, s) ==
  \E i \in 0..(Len(text) - Len(s)) : SubSeq(text, i + 1, i + Len(s)) = s

\* Whether position j of text holds a word character.
IsWordChar(text, j) == j \in 1..Len(text) /\ text[j] \in WordChars

RECURSIVE MatchFrom(_, _, _, _)
\* Whether the elements pat[k..] match text from position i on.  The i
\* flag changes nothing on a lower-case text of these blocks matched
\* against lower-case patterns.
MatchFrom(pat, k, text, i) ==
  IF k > Len(pat) THEN TRUE
  ELSE LET e == pat[k]
       IN CASE e.k = "b" ->
                 /\ IsWordChar(text, i - 1) # IsWordChar(text, i)
                 /\ MatchFrom(pat, k + 1, text, i)
            [] e.k = "lit" ->
                 /\ i + Len(e.s) - 1 <= Len(text)
                 /\ SubSeq(text, i, i + Len(e.s) - 1) = e.s
                 /\ MatchFrom(pat, k + 1, text, i + Len(e.s))
            [] e.k = "cls" ->
                 /\ i <= Len(text)
                 /\ text[i] \in e.s
                 /\ MatchFrom(pat, k + 1, text, i + 1)
            [] e.k = "sep" ->
                 \/ /\ i <= Len(text)
                    /\ text[i] \in WhiteSpace \cup {45}
                    /\ MatchFrom(pat, k + 1, text, i + 1)
                 \/ MatchFrom(pat, k + 1, text, i)

\* regex.test(text)
test(pat, text) == \E i \in 1..(Len(text) + 1) : MatchFrom(pat, 1, text, i)

\* const E_INVOICING_KEYWORDS = [...]: each keyword as the sequence of its
\* UTF-16 code units.
E_INVOICING_KEYWORDS ==
  <<<<101, 45, 105, 110, 118, 111, 105, 99, 101>>,  \* 'e-invoice'
    <<101, 32, 105, 110, 118, 111, 105, 99, 101>>,  \* 'e invoice'
    <<101, 105, 110, 118, 111, 105, 99, 101>>,  \* 'einvoice'
    <<101, 105, 110, 118, 111, 105, 99, 101>>,  \* 'einvoice'
    <<101, 45, 105, 110, 118, 111, 105, 99, 105, 110, 103>>,  \* 'e-invoicing'
    <<101, 32, 105, 110, 118, 111, 105, 99, 105, 110, 103>>,  \* 'e invoicing'
    <<101, 105, 110, 118, 111, 105, 99, 105, 110, 103>>,  \* 'einvoicing'
    <<101, 105, 110, 118, 111, 105, 99, 105, 110, 103>>,  \* 'einvoicing'
    <<101, 108, 101, 99, 116, 114, 111, 110, 105, 99, 32, 105, 110, 118, 111, 105, 99, 101>>,  \* 'electronic invoice'
    <<101, 108, 101, 99, 116, 114, 111, 110, 105, 99, 32, 105, 110, 118, 111, 105, 99, 105, 110, 103>>,  \* 'electronic invoicing'
    <<100, 105, 103, 105, 116, 97, 108, 32, 105, 110, 118, 111, 105, 99, 101>>,  \* 'digital invoice'
    <<100, 105, 103, 105, 116, 97, 108, 32, 105, 110, 118, 111, 105, 99, 105, 110, 103>>,  \* 'digital invoicing'
    <<101, 45, 98, 105, 108, 108, 105, 110, 103>>,  \* 'e-billing'
    <<101, 32, 98, 105, 108, 108, 105, 110, 103>>,  \* 'e billing'
    <<101, 98, 105, 108, 108, 105, 110, 103>>,  \* 'ebilling'
    <<101, 108, 101, 99, 116, 114, 111, 110, 105, 99, 32, 98, 105, 108, 108, 105, 110, 103>>,  \* 'electronic billing'
    <<100, 105, 103, 105, 116, 97, 108, 32, 98, 105, 108, 108, 105, 110, 103>>,  \* 'digital billing'
    <<111, 110, 108, 105, 110, 101, 32, 105, 110, 118, 111, 105, 99, 101>>,  \* 'online invoice'
    <<111, 110, 108, 105, 110, 101, 32, 105, 110, 118, 111, 105, 99, 105, 110, 103>>,  \* 'online invoicing'
    <<101, 45, 98, 105, 108, 108>>,  \* 'e-bill'
    <<101, 32, 98, 105, 108, 108>>,  \* 'e bill'
    <<101, 98, 105, 108, 108>>,  \* 'ebill'
    <<101, 108, 101, 99, 116, 114, 111, 110, 105, 99, 32, 98, 105, 108, 108>>,  \* 'electronic bill'
    <<101, 45, 105, 110, 118>>,  \* 'e-inv'
    <<101, 32, 105, 110, 118>>,  \* 'e inv'
    <<101, 105, 110, 118>>,  \* 'einv'
    <<101, 45, 98, 105, 108, 108>>,  \* 'e-bill'
    <<101, 32, 98, 105, 108, 108>>,  \* 'e bill'
    <<101, 98, 105, 108, 108>>,  \* 'ebill'
    <<112, 101, 112, 112, 111, 108>>,  \* 'peppol'
    <<112, 101, 112, 112, 111, 108, 32, 110, 101, 116, 119, 111, 114, 107>>,  \* 'peppol network'
    <<112, 101, 112, 112, 111, 108, 32, 115, 116, 97, 110, 100, 97, 114, 100>>,  \* 'peppol standard'
    <<112, 101, 112, 112, 111, 108, 32, 105, 110, 118, 111, 105, 99, 101>>,  \* 'peppol invoice'
    <<117, 98, 108>>,  \* 'ubl'
    <<117, 110, 105, 118, 101, 114, 115, 97, 108, 32, 98, 117, 115, 105, 110, 101, 115, 115, 32, 108, 97, 110, 103, 117, 97, 103, 101>>,  \* 'universal business language'
    <<117, 98, 108, 32, 105, 110, 118, 111, 105, 99, 101>>,  \* 'ubl invoice'
    <<120, 109, 108, 32, 105, 110, 118, 111, 105, 99, 101>>,  \* 'xml invoice'
    <<120, 109, 108, 32, 105, 110, 118, 111, 105, 99, 105, 110, 103>>,  \* 'xml invoicing'
    <<101, 100, 105, 32, 105, 110, 118, 111, 105, 99, 101>>,  \* 'edi invoice'
    <<101, 100, 105, 32, 105, 110, 118, 111, 105, 99, 105, 110, 103>>,  \* 'edi invoicing'
    <<101, 108, 101, 99, 116, 114, 111, 110, 105, 99, 32, 100, 97, 116, 97, 32, 105, 110, 116, 101, 114, 99, 104, 97, 110, 103, 101>>,  \* 'electronic data interchange'
    <<115, 116, 114, 117, 99, 116, 117, 114, 101, 100, 32, 105, 110, 118, 111, 105, 99, 101>>,  \* 'structured invoice'
    <<115, 116, 114, 117, 99, 116, 117, 114, 101, 100, 32, 105, 110, 118, 111, 105, 99, 105, 110, 103>>,  \* 'structured invoicing'
    <<105, 114, 110>>,  \* 'irn'
    <<105, 110, 118, 111, 105, 99, 101, 32, 114, 101, 102, 101, 114, 101, 110, 99, 101, 32, 110, 117, 109, 98, 101, 114>>,  \* 'invoice reference number'
    <<103, 115, 116, 32, 105, 110, 118, 111, 105, 99, 101>>,  \* 'gst invoice'
    <<103, 115, 116, 32, 101, 45, 105, 110, 118, 111, 105, 99, 101>>,  \* 'gst e-invoice'
    <<103, 115, 116, 32, 101, 108, 101, 99, 116, 114, 111, 110, 105, 99, 32, 105, 110, 118, 111, 105, 99, 101>>,  \* 'gst electronic invoice'
    <<101, 45, 119, 97, 121, 32, 98, 105, 108, 108>>,  \* 'e-way bill'
    <<101, 119, 97, 121, 32, 98, 105, 108, 108>>,  \* 'eway bill'
    <<101, 32, 119, 97, 121, 32, 98, 105, 108, 108>>,  \* 'e way bill'
    <<116, 97, 120, 32, 105, 110, 118, 111, 105, 99, 101, 32, 101, 108, 101, 99, 116, 114, 111, 110, 105, 99>>,  \* 'tax invoice electronic'
    <<101, 108, 101, 99, 116, 114, 111, 110, 105, 99, 32, 116, 97, 120, 32, 105, 110, 118, 111, 105, 99, 101>>,  \* 'electronic tax invoice'
    <<105, 110, 118, 111, 105, 99, 101, 32, 97, 117, 116, 111, 109, 97, 116, 105, 111, 110>>,  \* 'invoice automation'
    <<97, 117, 116, 111, 109, 97, 116, 101, 100, 32, 105, 110, 118, 111, 105, 99, 105, 110, 103>>,  \* 'automated invoicing'
    <<105, 110, 118, 111, 105, 99, 101, 32, 100, 105, 103, 105, 116, 105, 122, 97, 116, 105, 111, 110>>,  \* 'invoice digitization'
    <<105, 110, 118, 111, 105, 99, 101, 32, 100, 105, 103, 105, 116, 97, 108, 105, 122, 97, 116, 105, 111, 110>>,  \* 'invoice digitalization'
    <<105, 110, 118, 111, 105, 99, 101, 32, 99, 111, 109, 112, 108, 105, 97, 110, 99, 101>>,  \* 'invoice compliance'
    <<105, 110, 118, 111, 105, 99, 101, 32, 114, 101, 103, 117, 108, 97, 116, 105, 111, 110>>,  \* 'invoice regulation'
    <<105, 110, 118, 111, 105, 99, 101, 32, 100, 105, 114, 101, 99, 116, 105, 118, 101>>,  \* 'invoice directive'
    <<105, 110, 118, 111, 105, 99, 101, 32, 108, 101, 103, 105, 115, 108, 97, 116, 105, 111, 110>>,  \* 'invoice legislation'
    <<105, 110, 118, 111, 105, 99, 101, 32, 115, 116, 97, 110, 100, 97, 114, 100>>,  \* 'invoice standard'
    <<105, 110, 118, 111, 105, 99, 101, 32, 115, 112, 101, 99, 105, 102, 105, 99, 97, 116, 105, 111, 110>>,  \* 'invoice specification'
    <<105, 110, 118, 111, 105, 99, 101, 32, 102, 111, 114, 109, 97, 116>>,  \* 'invoice format'
    <<105, 110, 118, 111, 105, 99, 101, 32, 112, 114, 111, 116, 111, 99, 111, 108>>,  \* 'invoice protocol'
    <<115, 116, 97, 110, 100, 97, 114, 100, 105, 122, 101, 100, 32, 105, 110, 118, 111, 105, 99, 105, 110, 103>>,  \* 'standardized invoicing'
    <<115, 116, 114, 117, 99, 116, 117, 114, 101, 100, 32, 105, 110, 118, 111, 105, 99, 105, 110, 103>>,  \* 'structured invoicing'
    <<101, 45, 102, 97, 99, 116, 117, 114, 97, 116, 105, 101>>,  \* 'e-facturatie'
    <<101, 32, 102, 97, 99, 116, 117, 114, 97, 116, 105, 101>>,  \* 'e facturatie'
    <<101, 102, 97, 99, 116, 117, 114, 97, 116, 105, 101>>,  \* 'efacturatie'
    <<101, 108, 101, 107, 116, 114, 111, 110, 105, 115, 99, 104, 101, 32, 102, 97, 99, 116, 117, 114, 101, 114, 105, 110, 103>>,  \* 'elektronische facturering'
    <<101, 108, 101, 107, 116, 114, 111, 110, 105, 115, 99, 104, 101, 32, 102, 97, 99, 116, 117, 117, 114>>,  \* 'elektronische factuur'
    <<101, 108, 101, 107, 116, 114, 111, 110, 105, 115, 99, 104, 101, 32, 102, 97, 99, 116, 117, 114, 97, 116, 105, 101>>,  \* 'elektronische facturatie'
    <<100, 105, 103, 105, 116, 97, 108, 101, 32, 102, 97, 99, 116, 117, 114, 101, 114, 105, 110, 103>>,  \* 'digitale facturering'
    <<100, 105, 103, 105, 116, 97, 108, 101, 32, 102, 97, 99, 116, 117, 117, 114>>,  \* 'digitale factuur'
    <<100, 105, 103, 105, 116, 97, 108, 101, 32, 102, 97, 99, 116, 117, 114, 97, 116, 105, 101>>,  \* 'digitale facturatie'
    <<111, 110, 108, 105, 110, 101, 32, 102, 97, 99, 116, 117, 114, 101, 114, 105, 110, 103>>,  \* 'online facturering'
    <<111, 110, 108, 105, 110, 101, 32, 102, 97, 99, 116, 117, 117, 114>>,  \* 'online factuur'
    <<101, 108, 101, 107, 116, 114, 111, 110, 105, 115, 99, 104, 32, 102, 97, 99, 116, 117, 114, 101, 114, 101, 110>>,  \* 'elektronisch factureren'
    <<100, 105, 103, 105, 116, 97, 97, 108, 32, 102, 97, 99, 116, 117, 114, 101, 114, 101, 110>>,  \* 'digitaal factureren'
    <<112, 101, 112, 112, 111, 108, 32, 102, 97, 99, 116, 117, 114, 97, 116, 105, 101>>,  \* 'peppol facturatie'
    <<112, 101, 112, 112, 111, 108, 32, 102, 97, 99, 116, 117, 117, 114>>,  \* 'peppol factuur'
    <<101, 45, 102, 97, 99, 116, 117, 117, 114>>,  \* 'e-factuur'
    <<101, 32, 102, 97, 99, 116, 117, 117, 114>>,  \* 'e factuur'
    <<101, 102, 97, 99, 116, 117, 117, 114>>,  \* 'efactuur'
    <<102, 97, 99, 116, 117, 114, 97, 116, 105, 111, 110, 32, 233, 108, 101, 99, 116, 114, 111, 110, 105, 113, 117, 101>>,  \* 'facturation \u00e9lectronique'
    <<102, 97, 99, 116, 117, 114, 97, 116, 105, 111, 110, 32, 101, 108, 101, 99, 116, 114, 111, 110, 105, 113, 117, 101>>,  \* 'facturation electronique'
    <<102, 97, 99, 116, 117, 114, 101, 32, 233, 108, 101, 99, 116, 114, 111, 110, 105, 113, 117, 101>>,  \* 'facture \u00e9lectronique'
    <<102, 97, 99, 116, 117, 114, 101, 32, 101, 108, 101, 99, 116, 114, 111, 110, 105, 113, 117, 101>>,  \* 'facture electronique'
    <<102, 97, 99, 116, 117, 114, 97, 116, 105, 111, 110, 32, 110, 117, 109, 233, 114, 105, 113, 117, 101>>,  \* 'facturation num\u00e9rique'
    <<102, 97, 99, 116, 117, 114, 101, 32, 110, 117, 109, 233, 114, 105, 113, 117, 101>>,  \* 'facture num\u00e9rique'
    <<102, 97, 99, 116, 117, 114, 97, 116, 105, 111, 110, 32, 100, 105, 103, 105, 116, 97, 108, 101>>,  \* 'facturation digitale'
    <<102, 97, 99, 116, 117, 114, 101, 32, 100, 105, 103, 105, 116, 97, 108, 101>>,  \* 'facture digitale'
    <<101, 45, 102, 97, 99, 116, 117, 114, 97, 116, 105, 111, 110>>,  \* 'e-facturation'
    <<101, 32, 102, 97, 99, 116, 117, 114, 97, 116, 105, 111, 110>>,  \* 'e facturation'
    <<101, 102, 97, 99, 116, 117, 114, 97, 116, 105, 111, 110>>,  \* 'efacturation'
    <<112, 101, 112, 112, 111, 108, 32, 102, 97, 99, 116, 117, 114, 97, 116, 105, 111, 110>>,  \* 'peppol facturation'
    <<112, 101, 112, 112, 111, 108, 32, 102, 97, 99, 116, 117, 114, 101>>,  \* 'peppol facture'
    <<102, 97, 99, 116, 117, 114, 101, 32, 100, 105, 103, 105, 116, 97, 108, 101>>,  \* 'facture digitale'
    <<101, 108, 101, 107, 116, 114, 111, 110, 105, 115, 99, 104, 101, 32, 114, 101, 99, 104, 110, 117, 110, 103>>,  \* 'elektronische rechnung'
    <<101, 108, 101, 107, 116, 114, 111, 110, 105, 115, 99, 104, 101, 115, 32, 114, 101, 99, 104, 110, 117, 110, 103, 115, 119, 101, 115, 101, 110>>,  \* 'elektronisches rechnungswesen'
    <<100, 105, 103, 105, 116, 97, 108, 101, 32, 114, 101, 99, 104, 110, 117, 110, 103>>,  \* 'digitale rechnung'
    <<101, 45, 114, 101, 99, 104, 110, 117, 110, 103>>,  \* 'e-rechnung'
    <<101, 32, 114, 101, 99, 104, 110, 117, 110, 103>>,  \* 'e rechnung'
    <<101, 114, 101, 99, 104, 110, 117, 110, 103>>,  \* 'erechnung'
    <<101, 108, 101, 107, 116, 114, 111, 110, 105, 115, 99, 104, 101, 32, 102, 97, 107, 116, 117, 114, 105, 101, 114, 117, 110, 103>>,  \* 'elektronische fakturierung'
    <<102, 97, 99, 116, 117, 114, 97, 32, 101, 108, 101, 99, 116, 114, 243, 110, 105, 99, 97>>,  \* 'factura electr\u00f3nica'
    <<102, 97, 99, 116, 117, 114, 97, 32, 101, 108, 101, 99, 116, 114, 111, 110, 105, 99, 97>>,  \* 'factura electronica'
    <<102, 97, 99, 116, 117, 114, 97, 99, 105, 243, 110, 32, 101, 108, 101, 99, 116, 114, 243, 110, 105, 99, 97>>,  \* 'facturaci\u00f3n electr\u00f3nica'
    <<102, 97, 99, 116, 117, 114, 97, 99, 105, 111, 110, 32, 101, 108, 101, 99, 116, 114, 111, 110, 105, 99, 97>>,  \* 'facturacion electronica'
    <<101, 45, 102, 97, 99, 116, 117, 114, 97>>,  \* 'e-factura'
    <<101, 32, 102, 97, 99, 116, 117, 114, 97>>,  \* 'e factura'
    <<101, 102, 97, 99, 116, 117, 114, 97>>,  \* 'efactura'
    <<102, 97, 116, 116, 117, 114, 97, 32, 101, 108, 101, 116, 116, 114, 111, 110, 105, 99, 97>>,  \* 'fattura elettronica'
    <<102, 97, 116, 116, 117, 114, 97, 122, 105, 111, 110, 101, 32, 101, 108, 101, 116, 116, 114, 111, 110, 105, 99, 97>>,  \* 'fatturazione elettronica'
    <<101, 45, 102, 97, 116, 116, 117, 114, 97>>,  \* 'e-fattura'
    <<101, 32, 102, 97, 116, 116, 117, 114, 97>>,  \* 'e fattura'
    <<101, 102, 97, 116, 116, 117, 114, 97>>,  \* 'efattura'
    <<110, 111, 116, 97, 32, 102, 105, 115, 99, 97, 108, 32, 101, 108, 101, 116, 114, 244, 110, 105, 99, 97>>,  \* 'nota fiscal eletr\u00f4nica'
    <<110, 111, 116, 97, 32, 102, 105, 115, 99, 97, 108, 32, 101, 108, 101, 116, 114, 111, 110, 105, 99, 97>>,  \* 'nota fiscal eletronica'
    <<110, 102, 101>>,  \* 'nfe'
    <<110, 102, 45, 101>>,  \* 'nf-e'
    <<110, 102, 101, 32, 105, 110, 118, 111, 105, 99, 101>>,  \* 'nfe invoice'
    <<101, 45, 102, 97, 116, 117, 114, 97>>,  \* 'e-fatura'
    <<101, 32, 102, 97, 116, 117, 114, 97>>,  \* 'e fatura'
    <<101, 102, 97, 116, 117, 114, 97>>,  \* 'efatura'
    <<101, 45, 102, 97, 116, 117, 114, 97>>,  \* 'e-fatura'
    <<101, 32, 102, 97, 116, 117, 114, 97>>,  \* 'e fatura'
    <<101, 102, 97, 116, 117, 114, 97>>,  \* 'efatura'
    <<101, 108, 101, 107, 116, 114, 111, 110, 105, 107, 32, 102, 97, 116, 117, 114, 97>>,  \* 'elektronik fatura'
    <<30005, 23376, 21457, 31080>>,  \* '\u7535\u5b50\u53d1\u7968'
    <<38651, 23376, 30332, 31080>>,  \* '\u96fb\u5b50\u767c\u7968'
    <<38651, 23376, 12452, 12531, 12508, 12452, 12473>>,  \* '\u96fb\u5b50\u30a4\u30f3\u30dc\u30a4\u30b9'
    <<38651, 23376, 35531, 27714, 26360>>,  \* '\u96fb\u5b50\u8acb\u6c42\u66f8'
    <<101, 105, 110, 118, 111, 105, 99, 101>>,  \* 'einvoice'
    <<101, 45, 105, 110, 118, 111, 105, 99, 101>>,  \* 'e-invoice'
    <<101, 32, 105, 110, 118, 111, 105, 99, 101>>,  \* 'e invoice'
    <<101, 105, 110, 118, 111, 105, 99, 105, 110, 103>>,  \* 'einvoicing'
    <<101, 45, 105, 110, 118, 111, 105, 99, 105, 110, 103>>,  \* 'e-invoicing'
    <<101, 32, 105, 110, 118, 111, 105, 99, 105, 110, 103>>,  \* 'e invoicing'
    <<101, 98, 105, 108, 108, 105, 110, 103>>,  \* 'ebilling'
    <<101, 45, 98, 105, 108, 108, 105, 110, 103>>,  \* 'e-billing'
    <<101, 32, 98, 105, 108, 108, 105, 110, 103>>,  \* 'e billing'
    <<101, 102, 97, 99, 116, 117, 114, 97, 116, 105, 101>>,  \* 'efacturatie'
    <<101, 45, 102, 97, 99, 116, 117, 114, 97, 116, 105, 101>>,  \* 'e-facturatie'
    <<101, 32, 102, 97, 99, 116, 117, 114, 97, 116, 105, 101>>,  \* 'e facturatie'
    <<101, 102, 97, 99, 116, 117, 117, 114>>,  \* 'efactuur'
    <<101, 45, 102, 97, 99, 116, 117, 117, 114>>,  \* 'e-factuur'
    <<101, 32, 102, 97, 99, 116, 117, 117, 114>>,  \* 'e factuur'
    <<101, 102, 97, 99, 116, 117, 114, 97, 116, 105, 111, 110>>,  \* 'efacturation'
    <<101, 45, 102, 97, 99, 116, 117, 114, 97, 116, 105, 111, 110>>,  \* 'e-facturation'
    <<101, 32, 102, 97, 99, 116, 117, 114, 97, 116, 105, 111, 110>>,  \* 'e facturation'
    <<101, 105, 110, 118, 111, 105, 99, 101, 32, 115, 121, 115, 116, 101, 109>>,  \* 'einvoice system'
    <<101, 45, 105, 110, 118, 111, 105, 99, 101, 32, 115, 121, 115, 116, 101, 109>>,  \* 'e-invoice system'
    <<101, 108, 101, 99, 116, 114, 111, 110, 105, 99, 32, 105, 110, 118, 111, 105, 99, 105, 110, 103, 32, 115, 121, 115, 116, 101, 109>>,  \* 'electronic invoicing system'
    <<101, 105, 110, 118, 111, 105, 99, 101, 32, 112, 108, 97, 116, 102, 111, 114, 109>>,  \* 'einvoice platform'
    <<101, 45, 105, 110, 118, 111, 105, 99, 101, 32, 112, 108, 97, 116, 102, 111, 114, 109>>,  \* 'e-invoice platform'
    <<101, 105, 110, 118, 111, 105, 99, 101, 32, 115, 116, 97, 110, 100, 97, 114, 100>>,  \* 'einvoice standard'
    <<101, 45, 105, 110, 118, 111, 105, 99, 101, 32, 115, 116, 97, 110, 100, 97, 114, 100>>,  \* 'e-invoice standard'
    <<101, 105, 110, 118, 111, 105, 99, 101, 32, 110, 101, 116, 119, 111, 114, 107>>,  \* 'einvoice network'
    <<101, 45, 105, 110, 118, 111, 105, 99, 101, 32, 110, 101, 116, 119, 111, 114, 107>> >>  \* 'e-invoice network'

\* const einvoicePatterns = [...]: each regular expression as the sequence
\* of its elements.
einvoicePatterns ==
  <<<<B, L(<<101>>), Sep, L(<<105, 110, 118, 111, 105, 99, 101>>)>>,  \* /\be[\s-]?invoice/i
    <<B, L(<<101>>), Sep, L(<<105, 110, 118, 111, 105, 99, 105, 110, 103>>)>>,  \* /\be[\s-]?invoicing/i
    <<B, L(<<101>>), Sep, L(<<98, 105, 108, 108, 105, 110, 103>>)>>,  \* /\be[\s-]?billing/i
    <<B, L(<<101>>), Sep, L(<<98, 105, 108, 108>>), B>>,  \* /\be[\s-]?bill\b/i
    <<B, L(<<101>>), Sep, L(<<105, 110, 118>>), B>>,  \* /\be[\s-]?inv\b/i
    <<B, L(<<101, 108, 101, 99, 116, 114, 111, 110, 105, 99>>), Sep, L(<<105, 110, 118, 111, 105, 99, 101>>)>>,  \* /\belectronic[\s-]?invoice/i
    <<B, L(<<101, 108, 101, 99, 116, 114, 111, 110, 105, 99>>), Sep, L(<<105, 110, 118, 111, 105, 99, 105, 110, 103>>)>>,  \* /\belectronic[\s-]?invoicing/i
    <<B, L(<<100, 105, 103, 105, 116, 97, 108>>), Sep, L(<<105, 110, 118, 111, 105, 99, 101>>)>>,  \* /\bdigital[\s-]?invoice/i
    <<B, L(<<100, 105, 103, 105, 116, 97, 108>>), Sep, L(<<105, 110, 118, 111, 105, 99, 105, 110, 103>>)>>,  \* /\bdigital[\s-]?invoicing/i
    <<B, L(<<111, 110, 108, 105, 110, 101>>), Sep, L(<<105, 110, 118, 111, 105, 99, 101>>)>>,  \* /\bonline[\s-]?invoice/i
    <<B, L(<<111, 110, 108, 105, 110, 101>>), Sep, L(<<105, 110, 118, 111, 105, 99, 105, 110, 103>>)>>,  \* /\bonline[\s-]?invoicing/i
    <<B, L(<<101>>), Sep, L(<<102, 97, 99, 116, 117, 114, 97, 116, 105, 101>>)>>,  \* /\be[\s-]?facturatie/i
    <<B, L(<<101>>), Sep, L(<<102, 97, 99, 116, 117, 117, 114>>)>>,  \* /\be[\s-]?factuur/i
    <<B, L(<<101, 108, 101, 107, 116, 114, 111, 110, 105, 115, 99, 104>>), Sep, L(<<102, 97, 99, 116, 117, 114>>)>>,  \* /\belektronisch[\s-]?factur/i
    <<B, L(<<100, 105, 103, 105, 116, 97, 108, 101>>), Sep, L(<<102, 97, 99, 116, 117, 114>>)>>,  \* /\bdigitale[\s-]?factur/i
    <<B, L(<<102, 97, 99, 116, 117, 114>>), Sep, L(<<233, 108, 101, 99, 116, 114, 111, 110, 105, 113, 117, 101>>)>>,  \* /\bfactur[\s-]?\u00e9lectronique/i
    <<B, L(<<102, 97, 99, 116, 117, 114>>), Sep, L(<<101, 108, 101, 99, 116, 114, 111, 110, 105, 113, 117, 101>>)>>,  \* /\bfactur[\s-]?electronique/i
    <<B, L(<<102, 97, 99, 116, 117, 114>>), Sep, L(<<110, 117, 109, 233, 114, 105, 113, 117, 101>>)>>,  \* /\bfactur[\s-]?num\u00e9rique/i
    <<B, L(<<102, 97, 99, 116, 117, 114>>), Sep, L(<<100, 105, 103, 105, 116, 97, 108, 101>>)>>,  \* /\bfactur[\s-]?digitale/i
    <<B, L(<<101>>), Sep, L(<<102, 97, 99, 116, 117, 114, 97, 116, 105, 111, 110>>)>>,  \* /\be[\s-]?facturation/i
    <<B, L(<<101, 108, 101, 107, 116, 114, 111, 110, 105, 115, 99, 104>>), Sep, L(<<114, 101, 99, 104, 110, 117, 110, 103>>)>>,  \* /\belektronisch[\s-]?rechnung/i
    <<B, L(<<101>>), Sep, L(<<114, 101, 99, 104, 110, 117, 110, 103>>)>>,  \* /\be[\s-]?rechnung/i
    <<B, L(<<101, 108, 101, 107, 116, 114, 111, 110, 105, 115, 99, 104>>), Sep, L(<<102, 97, 107, 116, 117, 114>>)>>,  \* /\belektronisch[\s-]?faktur/i
    <<B, L(<<102, 97, 99, 116, 117, 114>>), Sep, L(<<101, 108, 101, 99, 116, 114>>), Cls({111, 243}), L(<<110, 105, 99, 97>>)>>,  \* /\bfactur[\s-]?electr[o\u00f3]nica/i
    <<B, L(<<101>>), Sep, L(<<102, 97, 99, 116, 117, 114, 97>>)>>,  \* /\be[\s-]?factura/i
    <<B, L(<<102, 97, 116, 116, 117, 114>>), Sep, L(<<101, 108, 101, 116, 116, 114, 111, 110, 105, 99, 97>>)>>,  \* /\bfattur[\s-]?elettronica/i
    <<B, L(<<101>>), Sep, L(<<102, 97, 116, 116, 117, 114, 97>>)>>,  \* /\be[\s-]?fattura/i
    <<B, L(<<110, 111, 116, 97>>), Sep, L(<<102, 105, 115, 99, 97, 108>>), Sep, L(<<101, 108, 101, 116, 114>>), Cls({111, 244}), L(<<110, 105, 99, 97>>)>>,  \* /\bnota[\s-]?fiscal[\s-]?eletr[o\u00f4]nica/i
    <<B, L(<<110, 102>>), Sep, L(<<101>>), B>>,  \* /\bnf[\s-]?e\b/i
    <<B, L(<<101>>), Sep, L(<<102, 97, 116, 117, 114, 97>>)>>,  \* /\be[\s-]?fatura/i
    <<B, L(<<101, 108, 101, 107, 116, 114, 111, 110, 105, 107>>), Sep, L(<<102, 97, 116, 117, 114, 97>>)>>,  \* /\belektronik[\s-]?fatura/i
    <<B, L(<<101>>), Sep, L(<<102, 97, 116, 117, 114, 97>>)>>,  \* /\be[\s-]?fatura/i
    <<B, L(<<112, 101, 112, 112, 111, 108>>)>>,  \* /\bpeppol/i
    <<B, L(<<117, 98, 108>>), Sep, L(<<105, 110, 118, 111, 105, 99, 101>>)>>,  \* /\bubl[\s-]?invoice/i
    <<B, L(<<120, 109, 108>>), Sep, L(<<105, 110, 118, 111, 105, 99, 101>>)>>,  \* /\bxml[\s-]?invoice/i
    <<B, L(<<101, 100, 105>>), Sep, L(<<105, 110, 118, 111, 105, 99, 101>>)>>,  \* /\bedi[\s-]?invoice/i
    <<B, L(<<115, 116, 114, 117, 99, 116, 117, 114, 101, 100>>), Sep, L(<<105, 110, 118, 111, 105, 99, 101>>)>>,  \* /\bstructured[\s-]?invoice/i
    <<B, L(<<105, 114, 110>>), B>>,  \* /\birn\b/i
    <<B, L(<<103, 115, 116>>), Sep, L(<<101>>), Sep, L(<<105, 110, 118, 111, 105, 99, 101>>)>>,  \* /\bgst[\s-]?e[\s-]?invoice/i
    <<B, L(<<103, 115, 116>>), Sep, L(<<101, 108, 101, 99, 116, 114, 111, 110, 105, 99>>), Sep, L(<<105, 110, 118, 111, 105, 99, 101>>)>>,  \* /\bgst[\s-]?electronic[\s-]?invoice/i
    <<B, L(<<101>>), Sep, L(<<119, 97, 121>>), Sep, L(<<98, 105, 108, 108>>)>>,  \* /\be[\s-]?way[\s-]?bill/i
    <<B, L(<<101, 119, 97, 121>>), Sep, L(<<98, 105, 108, 108>>)>> >>  \* /\beway[\s-]?bill/i

\* const strongIndicators = [...]
strongIndicators ==
  <<<<101, 45, 105, 110, 118, 111, 105, 99, 101>>,  \* 'e-invoice'
    <<101, 105, 110, 118, 111, 105, 99, 101>>,  \* 'einvoice'
    <<101, 32, 105, 110, 118, 111, 105, 99, 101>>,  \* 'e invoice'
    <<101, 45, 105, 110, 118, 111, 105, 99, 105, 110, 103>>,  \* 'e-invoicing'
    <<101, 105, 110, 118, 111, 105, 99, 105, 110, 103>>,  \* 'einvoicing'
    <<101, 32, 105, 110, 118, 111, 105, 99, 105, 110, 103>>,  \* 'e invoicing'
    <<101, 108, 101, 99, 116, 114, 111, 110, 105, 99, 32, 105, 110, 118, 111, 105, 99, 101>>,  \* 'electronic invoice'
    <<101, 108, 101, 99, 116, 114, 111, 110, 105, 99, 32, 105, 110, 118, 111, 105, 99, 105, 110, 103>>,  \* 'electronic invoicing'
    <<101, 45, 102, 97, 99, 116, 117, 114, 97, 116, 105, 101>>,  \* 'e-facturatie'
    <<101, 102, 97, 99, 116, 117, 114, 97, 116, 105, 101>>,  \* 'efacturatie'
    <<101, 32, 102, 97, 99, 116, 117, 114, 97, 116, 105, 101>>,  \* 'e facturatie'
    <<101, 108, 101, 107, 116, 114, 111, 110, 105, 115, 99, 104, 101, 32, 102, 97, 99, 116, 117, 117, 114>>,  \* 'elektronische factuur'
    <<101, 108, 101, 107, 116, 114, 111, 110, 105, 115, 99, 104, 101, 32, 102, 97, 99, 116, 117, 114, 101, 114, 105, 110, 103>>,  \* 'elektronische facturering'
    <<102, 97, 99, 116, 117, 114, 97, 116, 105, 111, 110, 32, 233, 108, 101, 99, 116, 114, 111, 110, 105, 113, 117, 101>>,  \* 'facturation \u00e9lectronique'
    <<102, 97, 99, 116, 117, 114, 101, 32, 233, 108, 101, 99, 116, 114, 111, 110, 105, 113, 117, 101>>,  \* 'facture \u00e9lectronique'
    <<102, 97, 99, 116, 117, 114, 97, 116, 105, 111, 110, 32, 101, 108, 101, 99, 116, 114, 111, 110, 105, 113, 117, 101>>,  \* 'facturation electronique'
    <<102, 97, 99, 116, 117, 114, 101, 32, 101, 108, 101, 99, 116, 114, 111, 110, 105, 113, 117, 101>>,  \* 'facture electronique'
    <<112, 101, 112, 112, 111, 108>>,  \* 'peppol'
    <<117, 98, 108, 32, 105, 110, 118, 111, 105, 99, 101>>,  \* 'ubl invoice'
    <<120, 109, 108, 32, 105, 110, 118, 111, 105, 99, 101>>,  \* 'xml invoice'
    <<101, 45, 98, 105, 108, 108, 105, 110, 103>>,  \* 'e-billing'
    <<101, 98, 105, 108, 108, 105, 110, 103>>,  \* 'ebilling'
    <<101, 32, 98, 105, 108, 108, 105, 110, 103>>,  \* 'e billing'
    <<100, 105, 103, 105, 116, 97, 108, 32, 105, 110, 118, 111, 105, 99, 101>>,  \* 'digital invoice'
    <<100, 105, 103, 105, 116, 97, 108, 32, 105, 110, 118, 111, 105, 99, 105, 110, 103>>,  \* 'digital invoicing'
    <<101, 45, 102, 97, 99, 116, 117, 117, 114>>,  \* 'e-factuur'
    <<101, 102, 97, 99, 116, 117, 117, 114>>,  \* 'efactuur'
    <<101, 32, 102, 97, 99, 116, 117, 117, 114>> >>  \* 'e factuur'

\* const excludeTerms = [...]
excludeTerms ==
  <<<<105, 110, 118, 111, 105, 99, 101, 32, 115, 111, 102, 116, 119, 97, 114, 101>>,  \* 'invoice software'
    <<105, 110, 118, 111, 105, 99, 101, 32, 116, 101, 109, 112, 108, 97, 116, 101>>,  \* 'invoice template'
    <<105, 110, 118, 111, 105, 99, 101, 32, 103, 101, 110, 101, 114, 97, 116, 111, 114>>,  \* 'invoice generator'
    <<99, 114, 101, 97, 116, 101, 32, 105, 110, 118, 111, 105, 99, 101>>,  \* 'create invoice'
    <<105, 110, 118, 111, 105, 99, 101, 32, 97, 112, 112>>,  \* 'invoice app'
    <<105, 110, 118, 111, 105, 99, 101, 32, 109, 97, 110, 97, 103, 101, 109, 101, 110, 116>>,  \* 'invoice management'
    <<98, 105, 108, 108, 105, 110, 103, 32, 115, 111, 102, 116, 119, 97, 114, 101>>,  \* 'billing software'
    <<97, 99, 99, 111, 117, 110, 116, 105, 110, 103, 32, 115, 111, 102, 116, 119, 97, 114, 101>>,  \* 'accounting software'
    <<105, 110, 118, 111, 105, 99, 101, 32, 116, 111, 111, 108>>,  \* 'invoice tool'
    <<105, 110, 118, 111, 105, 99, 101, 32, 109, 97, 107, 101, 114>>,  \* 'invoice maker'
    <<102, 114, 101, 101, 32, 105, 110, 118, 111, 105, 99, 101>>,  \* 'free invoice'
    <<105, 110, 118, 111, 105, 99, 101, 32, 100, 101, 115, 105, 103, 110>>,  \* 'invoice design'
    <<105, 110, 118, 111, 105, 99, 101, 32, 102, 111, 114, 109, 97, 116>>,  \* 'invoice format'
    <<105, 110, 118, 111, 105, 99, 101, 32, 115, 97, 109, 112, 108, 101>>,  \* 'invoice sample'
    <<105, 110, 118, 111, 105, 99, 101, 32, 101, 120, 97, 109, 112, 108, 101>> >>  \* 'invoice example'

\* The three terms whose presence keeps an exclude term from rejecting.
eInvoicingMentions ==
  <<<<101, 45, 105, 110, 118, 111, 105, 99, 105, 110, 103>>,  \* 'e-invoicing'
    <<101, 108, 101, 99, 116, 114, 111, 110, 105, 99, 32, 105, 110, 118, 111, 105, 99, 105, 110, 103>>,  \* 'electronic invoicing'
    <<101, 45, 102, 97, 99, 116, 117, 114, 97, 116, 105, 101>> >>  \* 'e-facturatie'

\* new RegExp(`\\b${escaped keyword}\\b`, 'i').test(lowerText)
WholeWord(lowerText, lowerKeyword) == test(<<B, L(lowerKeyword), B>>, lowerText)

\* containsEInvoicingKeywords(text)
containsEInvoicingKeywords(text) ==
  IF text = <<>> THEN FALSE
  ELSE LET lowerText == toLowerCase(text)
       IN \/ \E n \in 1..Len(E_INVOICING_KEYWORDS) :
               LET lowerKeyword == toLowerCase(E_INVOICING_KEYWORDS[n])
               IN \/ includes(lowerText, lowerKeyword)
                  \/ WholeWord(lowerText, lowerKeyword)
          \/ \E n \in 1..Len(einvoicePatterns) : test(einvoicePatterns[n], lowerText)

\* `${title} ${content}`
Combined(title, content) == title \o <<32>> \o content

\* verifyWithAlternativeLLM(title, content)
verifyWithAlternativeLLM(title, content) ==
  LET combinedText == toLowerCase(Combined(title, content))
      strongCount ==
        Cardinality({n \in 1..Len(strongIndicators) :
                       includes(combinedText, toLowerCase(strongIndicators[n]))})
      hasEInvoicing ==
        \E n \in 1..Len(eInvoicingMentions) : includes(combinedText, eInvoicingMentions[n])
      hasExcludeTerm ==
        \E n \in 1..Len(excludeTerms) :
          includes(combinedText, toLowerCase(excludeTerms[n])) /\ ~hasEInvoicing
      titleHasKeyword ==
        \E n \in 1..Len(strongIndicators) :
          includes(toLowerCase(title), strongIndicators[n])
      contentHasKeyword ==
        \E n \in 1..Len(strongIndicators) :
          includes(toLowerCase(content), strongIndicators[n])
  IN IF strongCount = 0 THEN FALSE
     ELSE IF hasExcludeTerm THEN FALSE
     ELSE IF titleHasKeyword /\ ~contentHasKeyword /\ Len(content) < ShortContent
     THEN FALSE
     ELSE TRUE

(***************************************************************************)
(* Oracle: verifyWithLLM and its rate limiter                              *)
(***************************************************************************)
Callers == 1..NumCallers

\* Date.now() when the module is loaded: far beyond LLM_DELAY.
PageLoadMs == 2 * LLM_DELAY

\* A caller that is not inside verifyWithLLM.
IdleCaller == [pc |-> "idle", wake |-> 0, calls |-> 0, title |-> <<>>, content |-> <<>>]

\* let lastLLMCall = 0; no call is under way.
NoLlm == [lastLLMCall |-> 0, clock |-> PageLoadMs,
          callers |-> [c \in Callers |-> IdleCaller]]

(***************************************************************************)
(* Crawler: crawlWebsite and extractAllLinks                               *)
(***************************************************************************)

\* Sequences over S of length at most n.
SeqsUpTo(S, n) == UNION {[1..k -> S] : k \in 0..n}

RECURSIVE Dedup(_, _, _)
\* Insertion into a Set, then Array.from: the first occurrences, in order.
Dedup(s, i, seen) ==
  IF i > Len(s) THEN <<>>
  ELSE IF s[i] \in seen THEN Dedup(s, i + 1, seen)
  ELSE <<s[i]>> \o Dedup(s, i + 1, seen \cup {s[i]})

RECURSIVE KeptLinks(_, _)
\* The loop of extractAllLinks: a link with an excluded extension is
\* dropped; the others lose their query string (urlObj.search = '').
KeptLinks(raw, i) ==
  IF i > Len(raw) THEN <<>>
  ELSE (IF raw[i].kind = "file" THEN <<>> ELSE <<raw[i].url>>) \o KeptLinks(raw, i + 1)

\* extractAllLinks(html, baseUrl), for a page given by its a[href] list.
extractAllLinks(raw) == Dedup(KeptLinks(raw, 1), 1, {})

\* No request was sent yet.
NoNetLog ==
  [fetched |-> FALSE,  \* a page was requested
   idle    |-> 0,      \* ms of delay since the last request
   spaced  |-> TRUE]   \* the last request came the phase's delay after
                       \* the one before it, or was the first

\* await fetchPageViaProxy(url), in a phase whose delay is ms.
Issue(log, ms) ==
  [fetched |-> TRUE, idle |-> 0, spaced |-> ~log.fetched \/ log.idle >= ms]

\* await new Promise(resolve => setTimeout(resolve, ms))
Delay(log, ms) == [log EXCEPT !.idle = ms]

\* A test that stops one level early.
SkipItemEarly(item, seen, limit) == item.url \in seen \/ item.depth >= limit

\* if (visited.has(url) || depth > maxDepth) continue;
SkipItem(item, seen, limit) == item.url \in seen \/ item.depth > limit

RECURSIVE NewItems(_, _, _, _)
\* for (const link of links) if (!visited.has(link) && !allLinks.has(link))
\* { allLinks.add(link); toVisit.push({ url: link, depth: depth + 1 }) }
NewItems(links, known, depth, i) ==
  IF i > Len(links) THEN <<>>
  ELSE IF links[i] \in known THEN NewItems(links, known, depth, i + 1)
  ELSE <<[url |-> links[i], depth |-> depth + 1]>>
         \o NewItems(links, known \cup {links[i]}, depth, i + 1)

\* No page was requested.
NoFetches == [u \in Range(SiteUrlSeq) |-> 0]

\* const visited = new Set(); const toVisit = [{ url: startUrl, depth: 0 }];
\* const allLinks = new Set([startUrl]);
CrawlEnter(startUrl, limit) ==
  /\ maxDepth' = limit
  /\ toVisit' = <<[url |-> startUrl, depth |-> 0]>>
  /\ visited' = <<>>
  /\ allLinks' = {startUrl}
  /\ linkGraph' = EmptyMap
  /\ fetches' = NoFetches

\* One iteration of the while loop that ends at the first "continue".
CrawlSkip ==
  /\ pc = "crawl" /\ toVisit # <<>>
  /\ SkipItem(Head(toVisit), Range(visited), maxDepth)
  /\ toVisit' = Tail(toVisit)
  /\ UNCHANGED <<pc, maxDepth, visited, allLinks, linkGraph, fetches, netLog>>

\* A failed fetch that ends the crawl: nothing is left to visit.
FrontierAbandoned(frontier) == <<>>

\* if (html === null) continue; and catch (error) { continue; }: the loop
\* goes on with what toVisit.shift() left.
FrontierAfterFailure(frontier) == Tail(frontier)

\* One iteration in which fetchPageViaProxy returns null.
CrawlFetchFail ==
  /\ pc = "crawl" /\ toVisit # <<>>
  /\ ~SkipItem(Head(toVisit), Range(visited), maxDepth)
  /\ visited' = Append(visited, Head(toVisit).url)
  /\ fetches' = [fetches EXCEPT ![Head(toVisit).url] = @ + 1]
  /\ toVisit' = FrontierAfterFailure(toVisit)
  /\ netLog' = Issue(netLog, CrawlDelayMs)
  /\ UNCHANGED <<pc, maxDepth, allLinks, linkGraph>>

\* One iteration in which the page is fetched; raw is its a[href] list.
CrawlFetchOk ==
  /\ pc = "crawl" /\ toVisit # <<>>
  /\ ~SkipItem(Head(toVisit), Range(visited), maxDepth)
  /\ \E raw \in env.links[Head(toVisit).url] :
       LET item  == Head(toVisit)
           links == extractAllLinks(raw)
           items == NewItems(links, Range(visited) \cup {item.url} \cup allLinks,
                             item.depth, 1)
       IN /\ visited' = Append(visited, item.url)
          /\ fetches' = [fetches EXCEPT ![item.url] = @ + 1]
          /\ linkGraph' = MapSet(linkGraph, item.url, Range(links))
          /\ allLinks' = allLinks \cup {items[i].url : i \in 1..Len(items)}
          /\ toVisit' = Tail(toVisit) \o items
  /\ netLog' = Delay(Issue(netLog, CrawlDelayMs), CrawlDelayMs)
  /\ UNCHANGED <<pc, maxDepth>>

\* The loop ends: return Array.from(visited).
CrawlReturn ==
  /\ pc = "crawl" /\ toVisit = <<>>
  /\ pc' = "crawled"
  /\ UNCHANGED <<crawlVars, netLog>>

(***************************************************************************)
(* Scrape orchestrator: scrapeBOSAWebsite, and the merge its callers run   *)
(***************************************************************************)

\* What parseHTMLContent can return for a page: a list of candidate items.
PagePostLists == env.pagePosts

\* The candidate lists of up to MaxCands items over the given URLs and titles.
CandLists(urls, titles) ==
  SeqsUpTo({Candidate(u, t) : u \in urls, t \in titles}, MaxCands)

NoRescrapeInfo == getPagesToRescrape(EmptyMap, <<>>, 0, 0)

NoRunObs == [n |-> 0, start |-> 0, retrieved |-> {}, processed |-> EmptyMap,
             yields |-> EmptyMap, caught |-> FALSE, saves |-> 0, result |-> "none"]

\* The locals of scrapeBOSAWebsite before the call and after it returned.
RunLocalsCleared ==
  /\ cacheMap' = EmptyMap
  /\ visitedUrls' = {}
  /\ rescrapeInfo' = NoRescrapeInfo
  /\ pagesToCheck' = <<>>
  /\ analyzed' = 0
  /\ seenInThisScrape' = {}

\* A caller invokes scrapeBOSAWebsite(isIncrementalMode).
StartRun ==
  /\ pc = "idle" /\ runObs.n < MaxRuns
  /\ \E m \in env.modes : mode' = m
  /\ pc' = "loadCache"
  /\ runObs' = [NoRunObs EXCEPT !.n = runObs.n + 1, !.start = now]
  /\ netLog' = NoNetLog
  /\ UNCHANGED <<app, env, now, storeVars, mergeLog, crawlVars, cacheMap, visitedUrls,
                 rescrapeInfo, pagesToCheck, analyzed, seenInThisScrape, allPosts,
                 selInput, llm, callLog, cacheObs>>

\* What an observer of loadPageCache notes: lastScraped per URL, and the
\* URLs whose lastScraped is below the one an earlier load returned.
ObserveLoad(m) ==
  [seen    |-> [u \in DOMAIN cacheObs.seen \cup DOMAIN m |->
                  IF u \in DOMAIN m THEN m[u].lastScraped ELSE cacheObs.seen[u]],
   dropped |-> cacheObs.dropped \cup
                 {u \in DOMAIN cacheObs.seen \cap DOMAIN m :
                    m[u].lastScraped < cacheObs.seen[u]}]

\* const cacheMap = await pageCache.loadPageCache();
LoadCache ==
  /\ pc = "loadCache"
  /\ \E outcome \in RequestOutcomes("cache") :
       LET m == loadPageCache(sbEnabled, outcome, sbCache, lsCache)
       IN cacheMap' = m /\ cacheObs' = ObserveLoad(m)
  /\ pc' = "loadVisited"
  /\ UNCHANGED <<app, env, now, storeVars, mergeLog, crawlVars, mode, visitedUrls, rescrapeInfo,
                 pagesToCheck, analyzed, seenInThisScrape, allPosts, selInput, llm, callLog, netLog, runObs>>

\* const visitedUrls = await getVisitedUrls(); then crawlWebsite is entered.
LoadVisited ==
  /\ pc = "loadVisited"
  /\ \E outcome \in RequestOutcomes("posts") :
       visitedUrls' = getVisitedUrls(loadAllPosts(sbEnabled, outcome, sbPosts, lsPosts))
  /\ CrawlEnter(BaseUrl, IF mode THEN IncrementalMaxDepth ELSE FullMaxDepth)
  /\ pc' = "crawl"
  /\ UNCHANGED <<app, env, now, storeVars, mergeLog, mode, cacheMap, rescrapeInfo, pagesToCheck,
                 analyzed, seenInThisScrape, allPosts, selInput, llm, callLog, netLog, runObs, cacheObs>>

\* A selection that analyses every new page in either mode.
PagesToCheckAll(isIncrementalMode, newPages) == newPages

\* const pagesToCheck = isIncrementalMode ? rescrapeInfo.newPages.slice(0, 20)
\*                                        : rescrapeInfo.newPages;
PagesToCheck(isIncrementalMode, newPages) ==
  IF isIncrementalMode THEN Take(newPages, IncrementalPageCap) ELSE newPages

\* crawlWebsite returned allPages; getPagesToRescrape and pagesToCheck.
SelectPages ==
  /\ pc = "crawled"
  /\ LET info == getPagesToRescrape(cacheMap, visited,
                   IF mode THEN IncrementalMaxAgeDays ELSE FullMaxAgeDays, now)
     IN /\ rescrapeInfo' = info
        /\ pagesToCheck' = PagesToCheck(mode, info.newPages)
  /\ analyzed' = 0
  /\ seenInThisScrape' = {}
  /\ allPosts' = <<>>
  /\ maxDepth' = 0 /\ toVisit' = <<>> /\ visited' = <<>> /\ allLinks' = {}
  /\ linkGraph' = EmptyMap /\ fetches' = NoFetches
  /\ pc' = "analyze"
  /\ UNCHANGED <<app, env, now, storeVars, mergeLog, mode, cacheMap, visitedUrls, selInput, llm, callLog, netLog,
                 runObs, cacheObs>>

\* A loop that stays on its page.
NextPageRetry(k) == k

\* The loop counter after an iteration, however the iteration ended.
NextPage(k) == k + 1

\* The observer counts the iterations spent on a URL, up to 2.
Processed(obs, url) ==
  [obs EXCEPT !.processed =
     MapSet(@, url, IF url \in DOMAIN @ THEN Min(@[url] + 1, 2) ELSE 1)]

\* An analysis loop without its try/catch: the exception leaves the run.
AnalyzeCatchNone == "threw"

\* Where the run continues when the body of the analysis loop throws: the
\* try/catch around the body logs and continues with the next page.
AnalyzeCatch == "analyze"

\* An iteration that writes a cache entry for the page whose fetch failed.
AnalyzeFetchFailCached ==
  /\ pc = "analyze" /\ analyzed < Len(pagesToCheck)
  /\ \E html \in env.htmls :
       cacheMap' = updateCacheEntry(cacheMap, pagesToCheck[analyzed + 1], html,
                     [title |-> "", hasEInvoicingContent |-> FALSE, postsCount |-> 0,
                      httpStatus |-> HttpOk], now)
  /\ analyzed' = NextPage(analyzed)
  /\ runObs' = Processed(runObs, pagesToCheck[analyzed + 1])
  /\ netLog' = Issue(netLog, AnalysisDelayMs)
  /\ UNCHANGED <<app, env, now, storeVars, mergeLog, pc, crawlVars, mode, visitedUrls,
                 rescrapeInfo, pagesToCheck, seenInThisScrape, allPosts, selInput, llm, callLog,
                 cacheObs>>

\* An iteration whose fetchPageViaProxy returns null or '' : "continue".
AnalyzeFetchFail ==
  /\ pc = "analyze" /\ analyzed < Len(pagesToCheck)
  /\ analyzed' = NextPage(analyzed)
  /\ runObs' = Processed(runObs, pagesToCheck[analyzed + 1])
  /\ netLog' = Issue(netLog, AnalysisDelayMs)
  /\ UNCHANGED <<app, env, now, storeVars, mergeLog, pc, crawlVars, mode, cacheMap, visitedUrls,
                 rescrapeInfo, pagesToCheck, seenInThisScrape, allPosts, selInput, llm, callLog,
                 cacheObs>>

\* An iteration whose fetch returns the page and whose scrapePage(url)
\* throws: its own fetch of the page fails, or parseHTMLContent throws.
AnalyzeScrapeThrows ==
  /\ pc = "analyze" /\ analyzed < Len(pagesToCheck)
  /\ analyzed' = NextPage(analyzed)
  /\ pc' = AnalyzeCatch
  /\ runObs' = [Processed(runObs, pagesToCheck[analyzed + 1]) EXCEPT
                  !.retrieved = @ \cup {pagesToCheck[analyzed + 1]},
                  !.caught = TRUE]
  /\ netLog' = Issue(Issue(netLog, AnalysisDelayMs), AnalysisDelayMs)
  /\ UNCHANGED <<app, env, now, storeVars, mergeLog, crawlVars, mode, cacheMap, visitedUrls,
                 rescrapeInfo, pagesToCheck, seenInThisScrape, allPosts, selInput, llm, callLog,
                 cacheObs>>

RECURSIVE FilterNewStored(_, _, _)
\* A filter that drops the posts of stored URLs only.
FilterNewStored(posts, known, i) ==
  IF i > Len(posts) THEN <<>>
  ELSE IF posts[i].url \in known THEN FilterNewStored(posts, known, i + 1)
  ELSE <<posts[i]>> \o FilterNewStored(posts, known, i + 1)

RECURSIVE FilterNew(_, _, _)
\* posts.filter(post => { if (visitedUrls.has(post.url) ||
\* seenInThisScrape.has(post.url)) return false;
\* seenInThisScrape.add(post.url); return true; })
FilterNew(posts, known, i) ==
  IF i > Len(posts) THEN <<>>
  ELSE IF posts[i].url \in known THEN FilterNew(posts, known, i + 1)
  ELSE <<posts[i]>> \o FilterNew(posts, known \cup {posts[i].url}, i + 1)

\* An iteration that runs to its end: the page is fetched (html), scraped
\* (posts), its cache entry is written and its new posts are collected.
AnalyzeOk ==
  /\ pc = "analyze" /\ analyzed < Len(pagesToCheck)
  /\ \E html \in env.htmls, posts \in PagePostLists :
       LET url      == pagesToCheck[analyzed + 1]
           newPosts == FilterNew(posts, visitedUrls \cup seenInThisScrape, 1)
       IN /\ cacheMap' = updateCacheEntry(cacheMap, url, html,
                           [title |-> IF Len(posts) > 0 THEN posts[1].title ELSE "",
                            hasEInvoicingContent |-> Len(posts) > 0,
                            postsCount |-> Len(posts),
                            httpStatus |-> HttpOk], now)
          /\ seenInThisScrape' =
               seenInThisScrape \cup {newPosts[i].url : i \in 1..Len(newPosts)}
          /\ allPosts' = allPosts \o newPosts
          /\ runObs' = [Processed(runObs, url) EXCEPT !.retrieved = @ \cup {url},
                                                      !.yields = MapSet(@, url, posts)]
  /\ analyzed' = NextPage(analyzed)
  /\ netLog' = Delay(Issue(Issue(netLog, AnalysisDelayMs), AnalysisDelayMs),
                     AnalysisDelayMs)
  /\ UNCHANGED <<app, env, now, storeVars, mergeLog, pc, crawlVars, mode, visitedUrls,
                 rescrapeInfo, pagesToCheck, selInput, llm, callLog, cacheObs>>

\* After the loop: await pageCache.savePageCache(cacheMap).
SaveCache ==
  /\ pc = "analyze" /\ analyzed >= Len(pagesToCheck)
  /\ \E outcomes \in [1..1 -> RequestOutcomes("cache") \cup
                                (IF "cache" \in env.faults THEN {"throw"} ELSE {})],
        lsOk \in SetItemOutcomes("cache") :
       /\ sbCache' = savePageCacheTable(sbEnabled, outcomes, sbCache, cacheMap)
       /\ lsCache' = savePageCacheToLocalStorage(lsCache, cacheMap, lsOk)
  /\ runObs' = [runObs EXCEPT !.saves = Min(@ + 1, 2)]
  /\ pc' = "return"
  /\ UNCHANGED <<app, env, now, sbEnabled, sbPosts, lsPosts, mergeLog, crawlVars, mode, cacheMap,
                 visitedUrls, rescrapeInfo, pagesToCheck, analyzed, seenInThisScrape,
                 allPosts, selInput, llm, callLog, netLog, cacheObs>>

\* return allPosts; the caller goes on to addNewPosts when the list is
\* not empty (handleScrape, handleScheduledScrape, runAutoRefresh).
ReturnPosts ==
  /\ pc = "return"
  /\ runObs' = [NoRunObs EXCEPT !.n = runObs.n, !.result = "returned"]
  /\ pc' = IF Len(allPosts) > 0 THEN "merge" ELSE "idle"
  /\ RunLocalsCleared
  /\ netLog' = NoNetLog
  /\ UNCHANGED <<app, env, now, storeVars, mergeLog, crawlVars, mode, allPosts, selInput, llm, callLog, cacheObs>>

\* The caller's addNewPosts(newPosts).
MergeRun ==
  /\ pc = "merge"
  /\ AddNewPostsCall(allPosts)
  /\ allPosts' = <<>>
  /\ pc' = "idle"
  /\ UNCHANGED <<app, env, now, sbEnabled, sbCache, lsCache, crawlVars, mode, cacheMap,
                 visitedUrls, rescrapeInfo, pagesToCheck, analyzed, seenInThisScrape,
                 selInput, llm, callLog, netLog, runObs, cacheObs>>

\* loadPageCacheData of the Tables tab: loadPageCache outside a run.
LoadPageCacheData ==
  /\ pc = "idle"
  /\ \E outcome \in RequestOutcomes("cache") :
       cacheObs' = ObserveLoad(loadPageCache(sbEnabled, outcome, sbCache, lsCache))
  /\ UNCHANGED <<app, env, now, storeVars, mergeLog, pc, crawlVars, mode, cacheMap, visitedUrls,
                 rescrapeInfo, pagesToCheck, analyzed, seenInThisScrape, allPosts,
                 selInput, llm, callLog, netLog, runObs>>

\* Time passes.
Tick ==
  /\ \E t \in env.times : t > now /\ now' = t
  /\ UNCHANGED <<app, env, storeVars, mergeLog, pc, crawlVars, runVars, selInput, llm, callLog, netLog>>

NonCrawlUnchanged ==
  UNCHANGED <<app, env, now, storeVars, mergeLog, runVars, selInput, llm, callLog>>

\* The App component after its first render: useState's initial values, no
\* timer, no run in flight.
NoApp ==
  [isScraping         |-> FALSE,
   scrapeStatus       |-> "",
   error              |-> FALSE,
   autoRefreshEnabled |-> FALSE,
   autoRefreshMode    |-> "daily",
   ownedTimer         |-> "none",  \* the timer the effect's cleanup clears
   leakedTimers       |-> 0,       \* timeouts no cleanup holds the id of
   clearPending       |-> FALSE,   \* setTimeout(() => setScrapeStatus(''))
   manualRuns         |-> 0,       \* scrapeBOSAWebsite calls of handleScrape
   autoRuns           |-> 0]       \* scrapeBOSAWebsite calls of runAutoRefresh

InitStore ==
  /\ app = NoApp
  /\ sbEnabled \in BOOLEAN
  /\ sbPosts = {} /\ lsPosts = <<>>
  /\ sbCache = {} /\ lsCache = EmptyMap
  /\ mergeLog = NoMergeLog

NoSelInput == [m |-> EmptyMap, urls |-> <<>>, maxAgeDays |-> 0]

\* No direct call was made yet.
NoCallLog == [op |-> "none"]

InitLocals ==
  /\ mode = FALSE
  /\ cacheMap = EmptyMap /\ visitedUrls = {}
  /\ maxDepth = 0 /\ toVisit = <<>> /\ visited = <<>> /\ allLinks = {}
  /\ linkGraph = EmptyMap /\ fetches = NoFetches
  /\ rescrapeInfo = NoRescrapeInfo /\ pagesToCheck = <<>> /\ analyzed = 0
  /\ seenInThisScrape = {} /\ allPosts = <<>>
  /\ runObs = NoRunObs
  /\ cacheObs = [seen |-> EmptyMap, dropped |-> {}]
  /\ netLog = NoNetLog
  /\ llm = NoLlm

\* Nothing is running and nothing was stored yet.
InitIdle ==
  /\ now = 0 /\ InitStore /\ InitLocals /\ selInput = NoSelInput /\ pc = "idle"
  /\ callLog = NoCallLog

(***************************************************************************)
(* SpecRun: runs of scrapeBOSAWebsite, each followed by its caller's       *)
(* merge, one after the other, over a site whose pages and failures are    *)
(* chosen at each fetch.  SpecRunFair adds that a run in progress goes on: *)
(* every request of the run is answered or fails.                          *)
(***************************************************************************)
\* A site whose pages form a chain from the base URL, one link deeper than
\* the incremental crawl goes; the first page repeats its link with a query
\* string and links a file.
ChainLinks ==
  [u \in PageUrls |->
     IF PageRank(u) = Len(PageUrlSeq) THEN {<<>>}
     ELSE IF u = BaseUrl
          THEN {<<[url |-> PageUrlSeq[2], kind |-> "query"],
                  [url |-> PageUrlSeq[2], kind |-> "page"],
                  [url |-> PageUrlSeq[3], kind |-> "file"]>>}
          ELSE {<<[url |-> PageUrlSeq[PageRank(u) + 1], kind |-> "page"]>>}]

InitRun ==
  /\ env = [links |-> ChainLinks, faults |-> {"cache"}, modes |-> {TRUE},
            pagePosts |-> {<<>>, <<Candidate("p1", "t1")>>},
            htmls |-> {<<1>>}, times |-> {0, 169}]
  /\ InitIdle

RunStep ==
  \/ LoadCache
  \/ LoadVisited
  \/ (CrawlSkip /\ NonCrawlUnchanged)
  \/ (CrawlFetchFail /\ NonCrawlUnchanged)
  \/ (CrawlFetchOk /\ NonCrawlUnchanged)
  \/ (CrawlReturn /\ NonCrawlUnchanged)
  \/ SelectPages
  \/ AnalyzeFetchFail
  \/ AnalyzeScrapeThrows
  \/ AnalyzeOk
  \/ SaveCache
  \/ ReturnPosts
  \/ MergeRun

NextRun == StartRun \/ RunStep \/ LoadPageCacheData \/ Tick

SpecRun == InitRun /\ [][NextRun]_vars

\* The runs of SpecRunFair see one post on every page and take place at
\* one of two instants.
InitRunFair ==
  /\ env = [links |-> ChainLinks, faults |-> {"cache"}, modes |-> {TRUE},
            pagePosts |-> {<<Candidate("p1", "t1")>>},
            htmls |-> {<<1>>}, times |-> {0, 1}]
  /\ InitIdle

\* Runs without the Tables tab.
NextRuns == StartRun \/ RunStep \/ Tick

SpecRunFair == InitRunFair /\ [][NextRuns]_vars /\ WF_vars(RunStep)

(***************************************************************************)
(* SpecRunPosts: the same runs and merges over a site whose pages show     *)
(* two post URLs under two titles.                                         *)
(***************************************************************************)
InitRunPosts ==
  /\ env = [links |-> ChainLinks, faults |-> {"posts"}, modes |-> {TRUE},
            pagePosts |-> CandLists(PostUrls, {"t1"}),
            htmls |-> {<<1>>}, times |-> {0, 25}]
  /\ InitIdle

SpecRunPosts == InitRunPosts /\ [][NextRuns]_vars

(***************************************************************************)
(* SpecPosts: addNewPosts called with any candidate list.                  *)
(***************************************************************************)
InitPosts ==
  /\ env = [links |-> ChainLinks, faults |-> {"posts"}, modes |-> {TRUE},
            pagePosts |-> CandLists(PostUrls, Titles),
            htmls |-> {}, times |-> {0, 25}]
  /\ InitIdle

CallAddNewPosts ==
  /\ mergeLog.n < MaxCalls
  /\ \E cands \in PagePostLists : AddNewPostsCall(cands)
  /\ UNCHANGED <<app, env, now, sbEnabled, sbCache, lsCache, pc, crawlVars, runVars,
                 selInput, llm, callLog, netLog>>

NextPosts == CallAddNewPosts \/ Tick

SpecPosts == InitPosts /\ [][NextPosts]_vars

(***************************************************************************)
(* SpecSelect: getPagesToRescrape applied to any cache, URL list, maximum  *)
(* age and instant.                                                        *)
(***************************************************************************)
SelUrls == {PageUrlSeq[1], PageUrlSeq[2]}

\* The entry updateCacheEntry wrote for url at instant t from content.
EntryAt(url, content, t) ==
  updateCacheEntry(EmptyMap, url, content,
                   [title |-> "", hasEInvoicingContent |-> FALSE,
                    postsCount |-> 0, httpStatus |-> HttpOk], t)[url]

\* The caches over SelUrls whose entries were written at an instant up to t.
CachesUpTo(t) ==
  UNION {{[u \in S |-> EntryAt(u, c[u], w[u])] :
            c \in [S -> Htmls], w \in [S -> {x \in Times : x <= t}]} :
         S \in SUBSET SelUrls}

InitSelect ==
  /\ env = [links |-> ChainLinks, faults |-> {}, modes |-> {TRUE},
            pagePosts |-> {<<>>}, htmls |-> Htmls, times |-> Times]
  /\ InitStore /\ InitLocals /\ pc = "idle" /\ callLog = NoCallLog
  /\ now \in Times
  /\ \E m \in CachesUpTo(now), urls \in SeqsUpTo(SelUrls, MaxSelUrls),
        d \in {IncrementalMaxAgeDays, FullMaxAgeDays} :
       selInput = [m |-> m, urls |-> urls, maxAgeDays |-> d]

\* const rescrapeInfo = pageCache.getPagesToRescrape(cacheMap, allPages, maxAge)
CallGetPagesToRescrape ==
  /\ pc = "idle"
  /\ rescrapeInfo' = getPagesToRescrape(selInput.m, selInput.urls,
                                        selInput.maxAgeDays, now)
  /\ pc' = "selected"
  /\ UNCHANGED <<app, env, now, storeVars, mergeLog, crawlVars, mode, cacheMap,
                 visitedUrls, pagesToCheck, analyzed, seenInThisScrape, allPosts,
                 selInput, llm, callLog, netLog, runObs, cacheObs>>

NextSelect == CallGetPagesToRescrape

SpecSelect == InitSelect /\ [][NextSelect]_vars

(***************************************************************************)
(* SpecCrawl: crawlWebsite from the base URL, to any depth up to           *)
(* MaxDepthChoice, over any site whose pages show up to MaxLinks links.    *)
(***************************************************************************)
\* The a[href] elements the pages of SpecCrawl are made of: a plain link
\* to each page, one link with a query string and one link to a file.
CrawlLinkItems ==
  [url : PageUrls, kind : {"page"}]
    \cup {[url |-> PageUrlSeq[2], kind |-> "query"],
          [url |-> PageUrlSeq[3], kind |-> "file"]}

InitCrawl ==
  /\ env = [links |-> [u \in PageUrls |-> SeqsUpTo(CrawlLinkItems, MaxLinks)],
            faults |-> {}, modes |-> {TRUE}, pagePosts |-> {<<>>},
            htmls |-> Htmls, times |-> {0}]
  /\ InitIdle

\* const allPages = await crawlWebsite(baseUrl, maxDepth)
CallCrawlWebsite ==
  /\ pc = "idle"
  /\ \E limit \in 0..MaxDepthChoice : CrawlEnter(BaseUrl, limit)
  /\ pc' = "crawl"
  /\ UNCHANGED netLog
  /\ NonCrawlUnchanged

NextCrawl ==
  \/ CallCrawlWebsite
  \/ (CrawlSkip /\ NonCrawlUnchanged)
  \/ (CrawlFetchFail /\ NonCrawlUnchanged)
  \/ (CrawlFetchOk /\ NonCrawlUnchanged)
  \/ (CrawlReturn /\ NonCrawlUnchanged)

SpecCrawl == InitCrawl /\ [][NextCrawl]_vars

\* A crawl that was entered goes on: every request is answered or fails.
SpecCrawlFair == InitCrawl /\ [][NextCrawl]_vars /\ WF_vars(NextCrawl)

(***************************************************************************)
(* SpecApp: the triggers of a run in the App component.  A run is in       *)
(* flight from the call of scrapeBOSAWebsite to the end of the handler     *)
(* that awaits it.  scheduledScrapeEnabled has no setter call, so the      *)
(* timer of handleScheduledScrape is never armed: the triggers are the     *)
(* 'Scrape Now' button and the auto-refresh timers.                        *)
(***************************************************************************)
otherVars == <<env, now, storeVars, mergeLog, pc, crawlVars, runVars, selInput, llm, callLog, netLog>>

\* The auto-refresh effect: its cleanup clears the timer it owns, and its
\* body arms a new one unless !autoRefreshEnabled || isScraping.
AutoRefreshEffect(a) ==
  [a EXCEPT !.ownedTimer =
     IF ~a.autoRefreshEnabled \/ a.isScraping THEN "none"
     ELSE IF a.autoRefreshMode = "daily" THEN "timeout" ELSE "interval"]

\* The dependencies of the effect that the model holds.
EffectDeps(a) == <<a.autoRefreshEnabled, a.autoRefreshMode, a.isScraping>>

\* A render after the state changed from a to b: the effect runs again
\* when one of its dependencies changed.
Render(a, b) == IF EffectDeps(a) = EffectDeps(b) THEN b ELSE AutoRefreshEffect(b)

\* Whether the 'Scrape Now' button is disabled.
ButtonDisabled(a) == a.isScraping

\* handleScrape up to its await: the click event is its argument.
ClickScrapeNow ==
  /\ ~ButtonDisabled(app) /\ app.manualRuns < MaxInFlight
  /\ app' = Render(app, [app EXCEPT !.isScraping = TRUE, !.error = FALSE,
                                     !.scrapeStatus = "checking",
                                     !.manualRuns = @ + 1])
  /\ UNCHANGED otherVars

\* handleScrape after its await: no posts, or the catch block; finally.
ManualRunEnds ==
  /\ app.manualRuns > 0
  /\ \E posts \in BOOLEAN :
       app' = Render(app, [app EXCEPT !.isScraping = FALSE,
                                      !.scrapeStatus = IF posts THEN "" ELSE "none",
                                      !.error = posts,
                                      !.clearPending = @ \/ ~posts,
                                      !.manualRuns = @ - 1])
  /\ UNCHANGED otherVars

\* runAutoRefresh up to its await.
runAutoRefresh(a) == [a EXCEPT !.scrapeStatus = "checking", !.autoRuns = @ + 1]

\* The timeout of the daily mode fires: runAutoRefresh(), then
\* scheduleNextRefresh(), whose returned cleanup is dropped.
AutoTimeoutFires ==
  /\ app.ownedTimer = "timeout"
  /\ app.autoRuns < MaxInFlight /\ app.leakedTimers < MaxLeaked
  /\ app' = [runAutoRefresh(app) EXCEPT !.ownedTimer = "none",
                                        !.leakedTimers = @ + 1]
  /\ UNCHANGED otherVars

\* A timeout set from inside a callback fires and sets its successor.
LeakedTimeoutFires ==
  /\ app.leakedTimers > 0 /\ app.autoRuns < MaxInFlight
  /\ app' = runAutoRefresh(app)
  /\ UNCHANGED otherVars

\* The interval of the interval mode fires.
AutoIntervalFires ==
  /\ app.ownedTimer = "interval" /\ app.autoRuns < MaxInFlight
  /\ app' = runAutoRefresh(app)
  /\ UNCHANGED otherVars

\* runAutoRefresh after its await: no posts, or the catch block.
AutoRunEnds ==
  /\ app.autoRuns > 0
  /\ \E posts \in BOOLEAN :
       app' = [app EXCEPT !.scrapeStatus = IF posts THEN "failed" ELSE "none",
                          !.clearPending = TRUE,
                          !.autoRuns = @ - 1]
  /\ UNCHANGED otherVars

\* setTimeout(() => setScrapeStatus(''), ...)
ClearScrapeStatus ==
  /\ app.clearPending
  /\ app' = [app EXCEPT !.scrapeStatus = "", !.clearPending = FALSE]
  /\ UNCHANGED otherVars

\* The Auto-Refresh checkbox of the settings tab.
ToggleAutoRefresh ==
  /\ app' = Render(app, [app EXCEPT !.autoRefreshEnabled = ~@])
  /\ UNCHANGED otherVars

\* The mode radio buttons of the settings tab.
SetAutoRefreshMode ==
  /\ \E m \in {"daily", "interval"} :
       m # app.autoRefreshMode /\ app' = Render(app, [app EXCEPT !.autoRefreshMode = m])
  /\ UNCHANGED otherVars

InitApp ==
  /\ env = [links |-> ChainLinks, faults |-> {}, modes |-> {TRUE},
            pagePosts |-> {<<>>}, htmls |-> Htmls, times |-> {0}]
  /\ InitIdle /\ sbEnabled

NextApp ==
  \/ ClickScrapeNow
  \/ ManualRunEnds
  \/ AutoTimeoutFires
  \/ LeakedTimeoutFires
  \/ AutoIntervalFires
  \/ AutoRunEnds
  \/ ClearScrapeStatus
  \/ ToggleAutoRefresh
  \/ SetAutoRefreshMode

SpecApp == InitApp /\ [][NextApp]_vars

\* The runs in flight.
InFlight == app.manualRuns + app.autoRuns

\* C1: at most one crawl run is in flight at any time, whichever triggers
\* fire and in whatever order.
CexC1_SingleRunInFlight == InFlight <= 1

(***************************************************************************)
(* Claims about the page cache selection and the crawl                     *)
(***************************************************************************)

\* Whether the cache entry of url is absent or older than maxAgeDays at t.
Stale(m, url, maxAgeDays, t) ==
  url \notin DOMAIN m \/ (t - m[url].lastScraped) > 24 * maxAgeDays

RECURSIVE WithinDepth(_)
\* The URLs at distance at most d from the base URL in the graph of the
\* links of the pages that were fetched.
WithinDepth(d) ==
  IF d = 0 THEN {BaseUrl}
  ELSE LET prev == WithinDepth(d - 1)
       IN prev \cup UNION {linkGraph[u] : u \in prev \cap DOMAIN linkGraph}

\* C6: crawlWebsite returns, without repetition, exactly the URLs at
\* distance at most maxDepth from the start URL in the link graph of the
\* fetched pages; it requested each of them once and no other URL.
ThmC6_CrawlCoverage ==
  pc = "crawled" =>
    /\ \A i, j \in 1..Len(visited) : visited[i] = visited[j] => i = j
    /\ Range(visited) = WithinDepth(maxDepth)
    /\ \A u \in PageUrls : fetches[u] = IF u \in Range(visited) THEN 1 ELSE 0

\* Witness of C6: a crawl to depth 1 returned three URLs, one of which
\* could not be fetched, and left out a linked URL that lies deeper.
WitC6_PrunedCrawl ==
  /\ pc = "crawled" /\ maxDepth = 1
  /\ Len(visited) = 3
  /\ Range(visited) \ DOMAIN linkGraph # {}
  /\ allLinks \ Range(visited) # {}

(***************************************************************************)
(* Claims about the Post store                                             *)
(***************************************************************************)

\* C2: after any sequence of crawl runs and merges from an empty Post
\* store, no URL occurs twice in the Post store: not in the localStorage
\* array and not in the table.
ThmC2_UniquePostUrls ==
  /\ \A i, j \in 1..Len(lsPosts) : lsPosts[i].url = lsPosts[j].url => i = j
  /\ \A r, q \in sbPosts : r.post_url = q.post_url => r = q

\* Witness of C2: two runs have merged; the second merge was handed a post
\* the store held and a new one, and the store holds two posts.
WitC2_TwoMerges ==
  /\ mergeLog.n >= 2 /\ pc = "idle"
  /\ Len(lsPosts) = 2
  /\ mergeLog.stats.new = 1 /\ mergeLog.stats.existing = 1

\* C3: when addNewPosts is called twice in succession with the same
\* candidate list, the second call admits no post (stats.new = 0),
\* whatever the outcomes of the load and save requests.
CexC3_MergeIdempotent ==
  (mergeLog.n >= 2 /\ mergeLog.cands = mergeLog.prevCands) => mergeLog.stats.new = 0

\* C4: when two candidates of one call share a URL that the store does not
\* hold and differ in their titles, addNewPosts admits exactly one post for
\* that URL, and it carries the title of the first of them.
CexC4_IntraRunDedup ==
  \A i, j \in 1..Len(mergeLog.cands) :
    (/\ i < j
     /\ mergeLog.cands[i].url = mergeLog.cands[j].url
     /\ mergeLog.cands[i].title # mergeLog.cands[j].title
     /\ mergeLog.cands[i].url \notin mergeLog.known
     /\ \A k \in 1..(i - 1) : mergeLog.cands[k].url # mergeLog.cands[i].url)
    => /\ Cardinality({k \in 1..Len(mergeLog.newPosts) :
                         mergeLog.newPosts[k].url = mergeLog.cands[i].url}) = 1
       /\ \A k \in 1..Len(mergeLog.newPosts) :
            mergeLog.newPosts[k].url = mergeLog.cands[i].url
              => mergeLog.newPosts[k].title = mergeLog.cands[i].title

(***************************************************************************)
(* Claims about a run of scrapeBOSAWebsite                                 *)
(***************************************************************************)

CexC9_RetrievedPagesCached ==
  pc = "return" =>
    \A u \in runObs.retrieved :
      u \in DOMAIN cacheMap /\ cacheMap[u].lastScraped >= runObs.start

\* C10: the lastScraped that loadPageCache returns for a URL is never below
\* the one an earlier loadPageCache returned for it.
CexC10_LastScrapedMonotone == cacheObs.dropped = {}


(***************************************************************************)
(* SpecCache: savePageCache and loadPageCache called directly, with any    *)
(* map, on a store whose requests can fail.  localStorage is shared by     *)
(* every script of the origin, so the key may hold text the program did    *)
(* not write.                                                              *)
(***************************************************************************)
\* The maps a caller saves: entries of updateCacheEntry for up to two URLs,
\* written at the instants of env.times.
SavedMaps ==
  UNION {{[u \in S |-> EntryAt(u, <<1>>, w[u])] : w \in [S -> env.times]} :
         S \in SUBSET SelUrls}

NoCacheLog ==
  [op            |-> "none",    \* the last call: "save" or "load"
   m             |-> EmptyMap,  \* the map of the last savePageCache
   saves         |-> 0,         \* successive savePageCache calls with m
   prior         |-> {},        \* URLs the backend held before the first
   upsertFailed  |-> FALSE,     \* an upsert of these calls failed
   setItemFailed |-> FALSE,     \* a setItem of these calls threw
   queryFailed   |-> FALSE,     \* the select of the load failed
   result        |-> EmptyMap]  \* what the last loadPageCache returned

InitCache ==
  /\ env = [links |-> ChainLinks, faults |-> {"cache"}, modes |-> {TRUE},
            pagePosts |-> {<<>>}, htmls |-> {<<1>>}, times |-> {0, 169}]
  /\ now = 0 /\ app = NoApp /\ sbEnabled \in BOOLEAN
  /\ sbPosts = {} /\ lsPosts = <<>> /\ mergeLog = NoMergeLog
  /\ sbCache = {} /\ lsCache \in {EmptyMap, UnreadableData}
  /\ InitLocals /\ selInput = NoSelInput /\ pc = "idle"
  /\ callLog = NoCacheLog

\* The URLs of the backend that loadPageCache reads first.
BackendUrls ==
  IF sbEnabled THEN {r.page_url : r \in sbCache}
  ELSE DOMAIN loadPageCacheFromLocalStorage(lsCache) \cap PageUrls

\* await savePageCache(m)
CallSavePageCache ==
  /\ \E m \in SavedMaps,
        outcomes \in [1..1 -> RequestOutcomes("cache") \cup {"throw"}],
        lsOk \in SetItemOutcomes("cache") :
       LET again == callLog.op = "save" /\ callLog.m = m
           sent  == sbEnabled /\ m # EmptyMap
       IN /\ sbCache' = savePageCacheTable(sbEnabled, outcomes, sbCache, m)
          /\ lsCache' = savePageCacheToLocalStorage(lsCache, m, lsOk)
          /\ callLog' =
               [op            |-> "save",
                m             |-> m,
                saves         |-> IF again THEN Min(callLog.saves + 1, 2) ELSE 1,
                prior         |-> IF again THEN callLog.prior ELSE BackendUrls,
                upsertFailed  |-> (again /\ callLog.upsertFailed)
                                    \/ (sent /\ outcomes[1] # "ok"),
                setItemFailed |-> (again /\ callLog.setItemFailed) \/ ~lsOk,
                queryFailed   |-> FALSE,
                result        |-> EmptyMap]
  /\ UNCHANGED <<app, env, now, sbEnabled, sbPosts, lsPosts, mergeLog, pc, crawlVars,
                 runVars, selInput, llm, netLog>>

\* const m = await loadPageCache()
CallLoadPageCache ==
  /\ \E outcome \in RequestOutcomes("cache") :
       callLog' = [callLog EXCEPT
                     !.op = "load",
                     !.queryFailed = sbEnabled /\ outcome # "ok",
                     !.result = loadPageCache(sbEnabled, outcome, sbCache, lsCache)]
  /\ UNCHANGED <<app, env, now, storeVars, mergeLog, pc, crawlVars, runVars, selInput, llm,
                 netLog>>

NextCache == CallSavePageCache \/ CallLoadPageCache

SpecCache == InitCache /\ [][NextCache]_vars

\* The calls of the log met no failure.
NoFailure == ~callLog.upsertFailed /\ ~callLog.setItemFailed /\ ~callLog.queryFailed

CexC12_EntriesSurviveUpsertError ==
  (callLog.op = "load" /\ callLog.saves >= 1 /\ callLog.upsertFailed
     /\ ~callLog.setItemFailed) =>
    \A u \in DOMAIN callLog.m :
      u \in DOMAIN callLog.result /\ callLog.result[u] = callLog.m[u]

\* C13: loadPageCache returns a Map of cache entries and throws nothing,
\* whatever the stores hold and whether or not the query fails; the Map is
\* empty when the table has no row and localStorage has no readable value.
ThmC13_LoadNeverThrows ==
  callLog.op = "load" =>
    /\ callLog.result # Thrown
    /\ DOMAIN callLog.result \subseteq PageUrls
    /\ (sbCache = {} /\ lsCache \in {EmptyMap, UnreadableData}) =>
         callLog.result = EmptyMap

\* The query failed and the fallback value was unreadable: an empty Map.
WitC13_QueryErrorUnreadable ==
  /\ callLog.op = "load" /\ sbEnabled /\ callLog.queryFailed
  /\ lsCache = UnreadableData /\ callLog.result = EmptyMap

(***************************************************************************)
(* SpecChanged: updateCacheEntry and hasPageChanged called directly on one *)
(* in-memory Map, with contents shorter and longer than the hashed prefix. *)
(***************************************************************************)
\* A content of HashPrefixLen + 1 characters, all 1 but the one at position
\* at, which is 2.
LongContent(at) == [i \in 1..(HashPrefixLen + 1) |-> IF i = at THEN 2 ELSE 1]

\* Contents longer than the hashed prefix: the first two differ only after
\* the prefix, the third differs from them at the last character of the
\* prefix.  (The contents of Htmls, shorter than the prefix, are those of
\* the runs.)
Contents == {LongContent(0), LongContent(HashPrefixLen + 1), LongContent(HashPrefixLen)}

NoChangedLog ==
  [op         |-> "none",   \* "updateCacheEntry" or "hasPageChanged"
   url        |-> "",       \* its url
   content    |-> <<>>,     \* its content
   result     |-> FALSE,    \* what hasPageChanged returned
   updUrl     |-> "",       \* the url and content of the last
   updContent |-> <<>>]     \* updateCacheEntry

InitChanged ==
  /\ env = [links |-> ChainLinks, faults |-> {}, modes |-> {TRUE},
            pagePosts |-> {<<>>}, htmls |-> {<<1>>}, times |-> {0}]
  /\ now = 0 /\ InitStore /\ ~sbEnabled
  /\ InitLocals /\ selInput = NoSelInput /\ pc = "idle"
  /\ callLog = NoChangedLog

\* updateCacheEntry(cacheMap, url, content, {...})
CallUpdateCacheEntry ==
  /\ \E url \in SelUrls, content \in Contents :
       /\ cacheMap' = updateCacheEntry(cacheMap, url, content,
                                       [title |-> "", hasEInvoicingContent |-> FALSE,
                                        postsCount |-> 0, httpStatus |-> HttpOk], now)
       /\ callLog' = [op |-> "updateCacheEntry", url |-> url, content |-> content,
                      result |-> FALSE, updUrl |-> url, updContent |-> content]
  /\ UNCHANGED <<app, env, now, storeVars, mergeLog, pc, crawlVars, mode, visitedUrls,
                 rescrapeInfo, pagesToCheck, analyzed, seenInThisScrape, allPosts,
                 selInput, llm, netLog, runObs, cacheObs>>

\* hasPageChanged(cacheMap, url, content)
CallHasPageChanged ==
  /\ \E url \in SelUrls, content \in Contents :
       callLog' = [callLog EXCEPT !.op = "hasPageChanged", !.url = url,
                                  !.content = content,
                                  !.result = hasPageChanged(cacheMap, url, content)]
  /\ UNCHANGED <<app, env, now, storeVars, mergeLog, pc, crawlVars, runVars, selInput, llm,
                 netLog>>

NextChanged == CallUpdateCacheEntry \/ CallHasPageChanged

SpecChanged == InitChanged /\ [][NextChanged]_vars

\* The first 5000 characters of a content.
Prefix(content) == SubSeq(content, 1, Min(5000, Len(content)))

\* C14: hasPageChanged(map, url, content) is true exactly when url has no
\* entry in map or the stored contentHash differs from the hash of the first
\* 5000 characters of content; it is true for a URL without entry, and
\* false after updateCacheEntry(map, url, c) for every content with the
\* 5000-character prefix of c.
ThmC14_ChangedIffHashDiffers ==
  callLog.op = "hasPageChanged" =>
    /\ callLog.result <=>
         \/ callLog.url \notin DOMAIN cacheMap
         \/ cacheMap[callLog.url].contentHash # HashFrom(Prefix(callLog.content), 1, 0)
    /\ callLog.url \notin DOMAIN cacheMap => callLog.result
    /\ (callLog.updUrl = callLog.url
          /\ Prefix(callLog.updContent) = Prefix(callLog.content)) => ~callLog.result

\* After updateCacheEntry with a long content, hasPageChanged is asked about
\* another content with the same 5000 first characters, and answers false.
WitC14_SamePrefixUnchanged ==
  /\ callLog.op = "hasPageChanged" /\ callLog.updUrl = callLog.url
  /\ callLog.updContent # callLog.content
  /\ Prefix(callLog.updContent) = Prefix(callLog.content)
  /\ ~callLog.result

(***************************************************************************)
(* Claims about the crawl                                                  *)
(***************************************************************************)
\* url waits in the frontier at a depth the crawl visits.
InFrontier(url) ==
  \E i \in 1..Len(toVisit) : toVisit[i].url = url /\ toVisit[i].depth <= maxDepth

\* A step of the crawl in which the fetch of the dequeued URL failed.
FailedFetchStep ==
  /\ pc = "crawl" /\ Len(visited') = Len(visited) + 1
  /\ visited'[Len(visited')] \notin DOMAIN linkGraph'

\* C15: a failed fetch does not end the crawl: it adds no link and removes
\* only the fetched URL from the frontier, and every URL that waits in the
\* frontier at a depth within maxDepth is visited later.
ThmC15_FailureDoesNotAbort ==
  /\ [][FailedFetchStep =>
         /\ pc' = "crawl" /\ allLinks' = allLinks
         /\ toVisit' = Tail(toVisit)]_vars
  /\ \A u \in PageUrls : (pc = "crawl" /\ InFrontier(u)) ~> (u \in Range(visited))

\* The crawl returned three URLs: the second could not be fetched, the
\* third was in the frontier then (the first page links to it) and was
\* fetched afterwards.
WitC15_FetchedAfterFailure ==
  /\ pc = "crawled" /\ Len(visited) = 3
  /\ visited[2] \notin DOMAIN linkGraph
  /\ visited[3] \in DOMAIN linkGraph
  /\ visited[3] \in linkGraph[visited[1]]

\* C16: every page request of a run comes at least the politeness delay of
\* its phase (300 ms in the crawl, 200 ms in the analysis) after the
\* request before it, on the success and failure paths alike.
CexC16_FetchesSpaced == netLog.spaced

(***************************************************************************)
(* SpecAging: up to MaxMerges addNewPosts calls for one Post URL under     *)
(* either title, at instants on both sides of the 24 h window, on a store  *)
(* whose requests can fail.                                                *)
(***************************************************************************)
InitAging ==
  /\ env = [links |-> ChainLinks, faults |-> {"posts"}, modes |-> {TRUE},
            pagePosts |-> CandLists({PostUrlSeq[1]}, Titles),
            htmls |-> {}, times |-> {0, 24, 25}]
  /\ InitIdle

\* await addNewPosts(cands)
CallAddNewPostsAgain ==
  /\ mergeLog.n < MaxMerges
  /\ \E cands \in PagePostLists : AddNewPostsCall(cands)
  /\ UNCHANGED <<app, env, now, sbEnabled, sbCache, lsCache, pc, crawlVars, runVars,
                 selInput, llm, callLog, netLog>>

NextAging == CallAddNewPostsAgain \/ Tick

SpecAging == InitAging /\ [][NextAging]_vars

(***************************************************************************)
(* Claims about the status of posts                                        *)
(***************************************************************************)
\* C17: in the merged set that addNewPosts returns and saves, no post has
\* Status New with a Scrape Timestamp more than 24 hours before the call.
ThmC17_NoStaleNew ==
  \A i \in 1..Len(mergeLog.merged) :
    mergeLog.merged[i].status = "New" => mergeLog.at - mergeLog.merged[i].ts <= 24

\* A post discovered 25 hours before the call is Existing in the merged
\* set and in the table, next to one the call admitted as New.
WitC17_AgedAfter25Hours ==
  /\ \E i \in 1..Len(mergeLog.merged) :
       /\ mergeLog.merged[i].status = "Existing"
       /\ mergeLog.at - mergeLog.merged[i].ts = 25
       /\ PostToRow(mergeLog.merged[i]) \in sbPosts
  /\ sbEnabled /\ now = mergeLog.at

\* The posts of the Post store: the table when Supabase is configured, the
\* localStorage array otherwise.
StoredPosts ==
  IF sbEnabled THEN {RowToPost(r) : r \in sbPosts} ELSE Range(lsPosts)

\* C18: a stored post whose status is Existing never becomes New again.
CexC18_ExistingNeverNew ==
  [][\A p \in StoredPosts, q \in StoredPosts' :
       (p.url = q.url /\ p.status = "Existing") => q.status = "Existing"]_vars

\* C19: addNewPosts called with a candidate whose URL is in the Post store
\* leaves that post there with its title, excerpt, publication date and
\* Scrape Timestamp; its status changes only from New to Existing, and
\* only when it is more than 24 hours old.
CexC19_KnownPostUntouched ==
  [][mergeLog'.n = mergeLog.n + 1 =>
       \A p \in StoredPosts :
         p.url \in {mergeLog'.cands[i].url : i \in 1..Len(mergeLog'.cands)} =>
           \E q \in StoredPosts' :
             /\ q.url = p.url /\ q.title = p.title /\ q.summary = p.summary
             /\ q.pub = p.pub /\ q.ts = p.ts
             /\ \/ q.status = p.status
                \/ /\ p.status = "New" /\ q.status = "Existing"
                   /\ mergeLog'.at - p.ts > 24]_vars

(***************************************************************************)
(* SpecRunTwice: two incremental runs over the site A -> B -> C -> D, of   *)
(* which the crawl reaches A, B and C, with a store whose requests         *)
(* succeed, at instants at most seven days apart.                          *)
(***************************************************************************)
InitRunTwice ==
  /\ env = [links |-> ChainLinks, faults |-> {}, modes |-> {TRUE},
            pagePosts |-> {<<>>, <<Candidate("p1", "t1")>>},
            htmls |-> {<<1>>}, times |-> {0, 168}]
  /\ InitIdle

SpecRunTwice == InitRunTwice /\ [][NextRuns]_vars

\* The pages A, B and C, in the order the crawl reaches them.
ABC == SubSeq(PageUrlSeq, 1, 3)

\* The second run is about to select its pages: its loadPageCache
\* returned the entries that the first run wrote for A, B and C, and its
\* crawl fetched A, B and C.
SecondRunCrawled ==
  /\ pc = "crawled" /\ runObs.n = 2
  /\ Range(ABC) \subseteq DOMAIN cacheObs.seen
  /\ visited = ABC /\ DOMAIN linkGraph = Range(ABC)

\* C20: when the first run cached A, B and C and the second run, at most
\* seven days later, crawls A, B and C again, the second run puts the three
\* pages in cachedPages, selects no page for analysis, reports a cache hit
\* rate of 100.0%, fetches nothing in its analysis phase and returns no
\* post.
ThmC20_SecondRunAllCached ==
  /\ [][(SecondRunCrawled /\ pc' = "analyze") =>
         /\ rescrapeInfo'.cachedPages = ABC /\ rescrapeInfo'.newPages = <<>>
         /\ rescrapeInfo'.cacheHitRate = [nan |-> FALSE, tenths |-> 1000]
         /\ pagesToCheck' = <<>>]_vars
  /\ [](/\ runObs.n = 2 /\ pc \in {"analyze", "return"}
        /\ rescrapeInfo.cachedPages = ABC /\ rescrapeInfo.newPages = <<>>
        => /\ allPosts = <<>> /\ DOMAIN runObs.processed = {}
           /\ runObs.retrieved = {} /\ pagesToCheck = <<>>)

\* The second run, seven days after the first, is about to return: three
\* cached pages, none analysed, no post.
WitC20_SecondRunReturnsNothing ==
  /\ pc = "return" /\ runObs.n = 2 /\ now = 168 /\ sbEnabled
  /\ rescrapeInfo.cachedPages = ABC
  /\ \A u \in Range(ABC) : cacheMap[u].lastScraped = 0
  /\ rescrapeInfo.cacheHitRate.tenths = 1000
  /\ allPosts = <<>> /\ runObs.retrieved = {}

(***************************************************************************)
(* Claims about the outcome of a first run                                 *)
(***************************************************************************)
\* The verified item I1 that page B shows.
I1 == Candidate(PostUrlSeq[1], "t1")

\* The page cache as a loadPageCache whose query succeeds returns it.
PersistedCache == loadPageCache(sbEnabled, "ok", sbCache, lsCache)

\* The first run crawled A, B and C and is about to return; scrapePage
\* returned I1 for B and nothing for A and C.
FirstRunOnlyBYields ==
  /\ pc = "return" /\ runObs.n = 1
  /\ rescrapeInfo.totalPages = 3
  /\ Range(rescrapeInfo.newPages) \cup Range(rescrapeInfo.cachedPages) = Range(ABC)
  /\ runObs.yields = [u \in Range(ABC) |-> IF u = ABC[2] THEN <<I1>> ELSE <<>>]

\* C21: from an empty cache and an empty Post store, a run that crawls A, B
\* and C and gets the one item I1 from B and nothing from A and C leaves
\* exactly three cache entries, B's with hasEInvoicingContent = true and
\* postsCount = 1, A's and C's with false and 0, and returns I1 alone; the
\* merge of its caller then leaves exactly one post in the Post store, for
\* I1's URL, with status New.
ThmC21_FirstRunOutcome ==
  /\ [](FirstRunOnlyBYields =>
          /\ DOMAIN PersistedCache = Range(ABC)
          /\ \A u \in Range(ABC) :
               /\ PersistedCache[u].hasEInvoicingContent = (u = ABC[2])
               /\ PersistedCache[u].postsCount = (IF u = ABC[2] THEN 1 ELSE 0)
          /\ allPosts = <<I1>>)
  /\ [][(pc = "merge" /\ mergeLog.n = 0 /\ allPosts = <<I1>> /\ pc' = "idle") =>
         /\ Cardinality(StoredPosts') = 1
         /\ \A p \in StoredPosts' : p.url = I1.url /\ p.status = "New"
         /\ mergeLog'.stats.new = 1]_vars

\* The first run and its merge are over: the cache holds A, B and C, B
\* alone with one post, and the Post store holds I1 as New.
WitC21_OnePostThreeEntries ==
  /\ pc = "idle" /\ runObs.n = 1 /\ mergeLog.n = 1 /\ sbEnabled
  /\ DOMAIN PersistedCache = Range(ABC)
  /\ PersistedCache[ABC[2]].postsCount = 1
  /\ PersistedCache[ABC[1]].postsCount = 0 /\ PersistedCache[ABC[3]].postsCount = 0
  /\ \E p \in StoredPosts : StoredPosts = {p} /\ p.url = I1.url /\ p.status = "New"

(***************************************************************************)
(* SpecCap: runs in either mode over a site whose base page links to more  *)
(* pages than an incremental run analyses.  The site answers every request *)
(* but, at times, the one for the first page a run analyses.               *)
(***************************************************************************)
\* A site of n pages: the base page links to the n - 1 others, which link
\* to nothing.
StarLinks(n) ==
  [u \in Range(SiteUrlSeq) |->
     IF u = BaseUrl
     THEN {[i \in 1..(n - 1) |-> [url |-> SiteUrlSeq[i + 1], kind |-> "page"]]}
     ELSE {<<>>}]

InitCap ==
  /\ \E n \in IncrementalPageCap..(IncrementalPageCap + MaxOverCap) :
       env = [links |-> StarLinks(n), faults |-> {}, modes |-> BOOLEAN,
              pagePosts |-> {<<>>}, htmls |-> {<<1>>}, times |-> {0, 169}]
  /\ InitIdle

NextCap ==
  \/ StartRun
  \/ LoadCache
  \/ LoadVisited
  \/ (CrawlFetchOk /\ NonCrawlUnchanged)
  \/ (CrawlReturn /\ NonCrawlUnchanged)
  \/ SelectPages
  \/ (AnalyzeFetchFail /\ analyzed = 0)
  \/ AnalyzeOk
  \/ SaveCache
  \/ ReturnPosts
  \/ Tick

SpecCap == InitCap /\ [][NextCap]_vars

\* The pages of the crawl, in crawl order, for which the cache the run
\* loaded has no entry or one older than the maximum age of the mode.
ToFetch(allPages) ==
  LET Test(u) == Stale(cacheMap, u, IF mode THEN 7 ELSE 30, now)
  IN SelectSeq(allPages, Test)

\* C22: an incremental run fetches at most 20 URLs for analysis, the first
\* 20 of the list of pages to fetch, taken in crawl order; a full run
\* analyses every URL of that list.
ThmC22_IncrementalCap ==
  /\ [][(pc = "crawled" /\ pc' = "analyze") =>
         /\ rescrapeInfo'.newPages = ToFetch(visited)
         /\ pagesToCheck' = IF mode THEN SubSeq(ToFetch(visited), 1,
                                                  Min(20, Len(ToFetch(visited))))
                             ELSE ToFetch(visited)]_vars
  /\ [](pc \in {"analyze", "return"} =>
          /\ DOMAIN runObs.processed = {pagesToCheck[i] : i \in 1..analyzed}
          /\ mode => Cardinality(DOMAIN runObs.processed) <= 20
          /\ (pc = "return" /\ ~mode) =>
               DOMAIN runObs.processed = Range(rescrapeInfo.newPages)
          /\ (pc = "return" /\ mode) =>
               DOMAIN runObs.processed =
                 {rescrapeInfo.newPages[i] :
                    i \in 1..Min(20, Len(rescrapeInfo.newPages))})

\* An incremental run is about to return: 22 pages were to fetch, it went
\* through the first 20 of them, the fetch of the first failing, and left
\* the 21st and the 22nd alone.
WitC22_TwentyOfTwentyTwo ==
  /\ pc = "return" /\ mode
  /\ Len(rescrapeInfo.newPages) = 22 /\ analyzed = 20
  /\ Cardinality(DOMAIN runObs.processed) = 20
  /\ Cardinality(runObs.retrieved) = 19
  /\ rescrapeInfo.newPages[21] \notin DOMAIN runObs.processed
  /\ rescrapeInfo.newPages[22] \notin DOMAIN runObs.processed

(***************************************************************************)
(* SpecInterrupt: the runs of SpecRunTwice in a page that can be closed or *)
(* reloaded at any point of a run: what the run held in memory is lost,    *)
(* what it wrote to the stores stays.                                      *)
(***************************************************************************)
\* The page is closed while a run or its caller's merge is under way.
Interrupt ==
  /\ pc # "idle"
  /\ pc' = "idle"
  /\ RunLocalsCleared
  /\ allPosts' = <<>>
  /\ maxDepth' = 0 /\ toVisit' = <<>> /\ visited' = <<>> /\ allLinks' = {}
  /\ linkGraph' = EmptyMap /\ fetches' = NoFetches
  /\ runObs' = [NoRunObs EXCEPT !.n = runObs.n, !.result = "interrupted"]
  /\ netLog' = NoNetLog
  /\ UNCHANGED <<app, env, now, storeVars, mergeLog, mode, selInput, llm, callLog, cacheObs>>

NextInterrupt == NextRuns \/ Interrupt

SpecInterrupt == InitRunTwice /\ [][NextInterrupt]_vars

\* The persisted cache entry of page u is fresh for an incremental run.
FreshEntry(u) ==
  /\ u \in DOMAIN PersistedCache
  /\ now - PersistedCache[u].lastScraped <= 24 * 7

\* C23: whenever no run is under way, whether the last one ended or was
\* interrupted, the item found on a page whose persisted cache entry is
\* fresh is in the Post store.  (The pages of this site show no item or
\* the one item I1, so an entry with postsCount > 0 is one of a page on
\* which I1 was found.)
CexC23_InterruptedRunConsistent ==
  pc = "idle" =>
    \A u \in PageUrls :
      (FreshEntry(u) /\ PersistedCache[u].postsCount > 0) =>
        I1.url \in {p.url : p \in StoredPosts}

(***************************************************************************)
(* SpecRelevance: containsEInvoicingKeywords and verifyWithAlternativeLLM   *)
(* called directly, once in a behaviour, with texts made of a few words   *)
(* and phrases.                                                            *)
(***************************************************************************)
\* The words the texts handed to containsEInvoicingKeywords are made of:
\* two words with a keyword inside them, the two keywords, and a word
\* without any.
KeywordWords ==
  <<<<112, 117, 98, 108, 105, 99, 97, 116, 105, 111, 110>>,  \* 'publication'
    <<99, 111, 110, 102, 101, 114, 101, 110, 99, 101>>,  \* 'conference'
    <<117, 98, 108>>,  \* 'ubl'
    <<110, 102, 101>>,  \* 'nfe'
    <<110, 101, 119, 115>> >>  \* 'news'

\* The titles of the items handed to the verification.
ItemTitles ==
  <<<<110, 101, 119, 115>>,  \* 'news'
    <<80, 101, 112, 112, 111, 108>>,  \* 'Peppol'
    <<69, 45, 73, 110, 118, 111, 105, 99, 105, 110, 103>> >>  \* 'E-Invoicing'

\* The phrases the contents of these items are made of: an exclude term,
\* a strong indicator, a strong indicator that keeps exclude terms from
\* rejecting, a keyword that is no strong indicator, and a sentence of
\* 59 characters without keyword.
ItemPhrases ==
  <<<<105, 110, 118, 111, 105, 99, 101, 32, 115, 111, 102, 116, 119, 97, 114, 101>>,  \* 'invoice software'
    <<112, 101, 112, 112, 111, 108>>,  \* 'peppol'
    <<101, 45, 105, 110, 118, 111, 105, 99, 105, 110, 103>>,  \* 'e-invoicing'
    <<117, 98, 108>>,  \* 'ubl'
    <<116, 104, 101, 32, 102, 101, 100, 101, 114, 97, 108, 32, 115, 101, 114, 118, 105, 99, 101, 32, 102, 111, 114, 32, 112, 111, 108, 105, 99, 121, 32, 97, 110, 100, 32, 115, 117, 112, 112, 111, 114, 116, 32, 105, 110, 102, 111, 114, 109, 115, 32, 99, 105, 116, 105, 122, 101, 110, 115>> >>  \* 'the federal service for policy and support informs citizens'

RECURSIVE JoinWords(_)
\* The words of a list, separated by one space.
JoinWords(ws) ==
  IF ws = <<>> THEN <<>>
  ELSE IF Len(ws) = 1 THEN ws[1]
  ELSE ws[1] \o <<32>> \o JoinWords(Tail(ws))

KeywordTexts == {JoinWords(ws) : ws \in SeqsUpTo(Range(KeywordWords), MaxWords)}

ItemContents == {JoinWords(ps) : ps \in SeqsUpTo(Range(ItemPhrases), MaxPhrases)}

NoRelevanceLog ==
  [op      |-> "none",  \* "contains" or "verify"
   title   |-> <<>>,    \* the title of the verified item
   content |-> <<>>,    \* its content, or the text checked for keywords
   result  |-> FALSE]   \* what the call returned

InitRelevance ==
  /\ env = [links |-> ChainLinks, faults |-> {}, modes |-> {TRUE},
            pagePosts |-> {<<>>}, htmls |-> {<<1>>}, times |-> {0}]
  /\ now = 0 /\ InitStore /\ sbEnabled
  /\ InitLocals /\ selInput = NoSelInput /\ pc = "idle"
  /\ callLog = NoRelevanceLog

RelevanceUnchanged ==
  UNCHANGED <<app, env, now, storeVars, mergeLog, pc, crawlVars, runVars, selInput, llm,
              netLog>>

\* containsEInvoicingKeywords(text)
CallContainsEInvoicingKeywords ==
  /\ callLog.op = "none"
  /\ \E text \in KeywordTexts :
       callLog' = [op |-> "contains", title |-> <<>>, content |-> text,
                   result |-> containsEInvoicingKeywords(text)]
  /\ RelevanceUnchanged

\* await verifyWithAlternativeLLM(title, content)
CallVerifyWithAlternativeLLM ==
  /\ callLog.op = "none"
  /\ \E title \in Range(ItemTitles), content \in ItemContents :
       callLog' = [op |-> "verify", title |-> title, content |-> content,
                   result |-> verifyWithAlternativeLLM(title, content)]
  /\ RelevanceUnchanged

NextRelevance == CallContainsEInvoicingKeywords \/ CallVerifyWithAlternativeLLM

SpecRelevance == InitRelevance /\ [][NextRelevance]_vars

\* A keyword or a pattern of the program matches text at word boundaries.
WholeWordMatch(text) ==
  \/ \E n \in 1..Len(E_INVOICING_KEYWORDS) :
       WholeWord(toLowerCase(text), toLowerCase(E_INVOICING_KEYWORDS[n]))
  \/ \E n \in 1..Len(einvoicePatterns) : test(einvoicePatterns[n], toLowerCase(text))

\* C28: a text in which keywords occur only inside longer tokens, no
\* keyword and no pattern matching at word boundaries, is classified not
\* relevant by containsEInvoicingKeywords.
CexC28_WholeWordsOnly ==
  (callLog.op = "contains" /\ ~WholeWordMatch(callLog.content)) => ~callLog.result

\* text contains a strong e-invoicing indicator.
HasStrong(text) ==
  \E n \in 1..Len(strongIndicators) : includes(toLowerCase(text), strongIndicators[n])

\* text contains a generic invoicing-tool term.
HasGeneric(text) ==
  \E n \in 1..Len(excludeTerms) : includes(toLowerCase(text), excludeTerms[n])

\* A strong indicator in the title only, and a content under 50 characters.
TitleOnly(title, content) ==
  HasStrong(title) /\ ~HasStrong(content) /\ Len(content) < 50

\* C29: verifyWithAlternativeLLM rejects an item that passed the keyword
\* check only when (a) its text contains a generic invoicing-tool term and
\* no strong indicator or (b) a strong indicator is in the title only and
\* the content is shorter than 50 characters; it accepts an item whose
\* text contains a generic-tool term together with a strong indicator
\* (case (b) apart).
CexC29_SecondaryCheckRejections ==
  (/\ callLog.op = "verify"
   /\ containsEInvoicingKeywords(Combined(callLog.title, callLog.content))) =>
    LET text == Combined(callLog.title, callLog.content)
        b    == TitleOnly(callLog.title, callLog.content)
    IN /\ ~callLog.result => ((HasGeneric(text) /\ ~HasStrong(text)) \/ b)
       /\ (HasGeneric(text) /\ HasStrong(text) /\ ~b) => callLog.result


(***************************************************************************)
(* SpecOracle: NumCallers callers, each inside its own run, call           *)
(* verifyWithLLM for one item after the other while the clock advances.    *)
(***************************************************************************)
NoOracleLog ==
  [requests    |-> 0,       \* requests sent to /api/verify-llm, up to 2
   lastRequest |-> 0,       \* the instant of the last one
   gap         |-> 0,       \* ms between the last two
   outcome     |-> "none",  \* how the request of the last call to return
                            \* ended,
   title       |-> <<>>,    \* the item of that call
   content     |-> <<>>,
   result      |-> FALSE]   \* and what the call returned

\* The items the callers have verified: one the rule-based check accepts,
\* one it rejects.
OracleItems ==
  {[title |-> ItemTitles[1], content |-> ItemPhrases[3]],
   [title |-> ItemTitles[1], content |-> ItemPhrases[4]]}

\* How the request to /api/verify-llm can end: answered with success and
\* verified === true, with success and another verified, with success
\* false, with a status that is not OK, or not answered (fetch rejects, or
\* the body is no JSON).
OracleOutcomes == {"verified", "not verified", "success false", "not ok", "rejected"}

\* A fallback that rejects every item.
OnOracleFailureReject(title, content) == FALSE

\* return await verifyWithAlternativeLLM(title, content), on each of the
\* three failure paths.
OnOracleFailure(title, content) == verifyWithAlternativeLLM(title, content)

\* What verifyWithLLM(title, content) returns when its request ends with
\* outcome.
verifyWithLLM(outcome, title, content) ==
  IF outcome = "verified" THEN TRUE
  ELSE IF outcome = "not verified" THEN FALSE
  ELSE OnOracleFailure(title, content)

\* fetch(`${PROXY_SERVER}/api/verify-llm`, ...) at instant t.
RequestSent(log, t) ==
  [log EXCEPT !.requests = Min(log.requests + 1, 2), !.lastRequest = t,
              !.gap = IF log.requests = 0 THEN 0 ELSE t - log.lastRequest]

InitOracle ==
  /\ env = [links |-> ChainLinks, faults |-> {}, modes |-> {TRUE},
            pagePosts |-> {<<>>}, htmls |-> {<<1>>}, times |-> {0}]
  /\ now = 0 /\ InitStore /\ InitLocals /\ selInput = NoSelInput /\ pc = "idle"
  /\ callLog = NoOracleLog

OracleUnchanged ==
  UNCHANGED <<app, env, now, storeVars, mergeLog, pc, crawlVars, runVars, selInput, netLog>>

\* verifyWithLLM from its entry to its first await: the timer when the
\* last call is less than LLM_DELAY old, the request otherwise.
VerifyEnter(c) ==
  /\ llm.callers[c].pc = "idle" /\ llm.callers[c].calls < MaxVerifications
  /\ \E item \in OracleItems :
       LET timeSinceLastCall == llm.clock - llm.lastLLMCall
           entered == [llm EXCEPT !.callers[c].title = item.title,
                                  !.callers[c].content = item.content]
       IN IF timeSinceLastCall < LLM_DELAY
          THEN /\ llm' = [entered EXCEPT !.callers[c].pc = "sleep",
                                         !.callers[c].wake =
                                            llm.clock + (LLM_DELAY - timeSinceLastCall)]
               /\ UNCHANGED callLog
          ELSE /\ llm' = [entered EXCEPT !.lastLLMCall = llm.clock,
                                         !.callers[c].pc = "fetch"]
               /\ callLog' = RequestSent(callLog, llm.clock)
  /\ OracleUnchanged

\* The timer of the caller fires: lastLLMCall = Date.now(), then the request.
VerifyWake(c) ==
  /\ llm.callers[c].pc = "sleep" /\ llm.clock >= llm.callers[c].wake
  /\ llm' = [llm EXCEPT !.lastLLMCall = llm.clock, !.callers[c].pc = "fetch"]
  /\ callLog' = RequestSent(callLog, llm.clock)
  /\ OracleUnchanged

\* The request is answered or rejected and verifyWithLLM returns.
VerifyReturn(c) ==
  /\ llm.callers[c].pc = "fetch"
  /\ llm' = [llm EXCEPT !.callers[c] = [IdleCaller EXCEPT !.calls = llm.callers[c].calls + 1]]
  /\ \E outcome \in OracleOutcomes :
       callLog' = [callLog EXCEPT
                     !.outcome = outcome,
                     !.title = llm.callers[c].title,
                     !.content = llm.callers[c].content,
                     !.result = verifyWithLLM(outcome, llm.callers[c].title,
                                              llm.callers[c].content)]
  /\ OracleUnchanged

\* The clock advances.
TickMs ==
  /\ llm.clock < PageLoadMs + MaxClockSteps * ClockStepMs
  /\ llm' = [llm EXCEPT !.clock = @ + ClockStepMs]
  /\ UNCHANGED callLog
  /\ OracleUnchanged

NextOracle ==
  \/ \E c \in Callers : VerifyEnter(c)
  \/ \E c \in Callers : VerifyWake(c)
  \/ \E c \in Callers : VerifyReturn(c)
  \/ TickMs

SpecOracle == InitOracle /\ [][NextOracle]_vars

\* C24: any two successive requests to the verification oracle are at
\* least 500 ms apart, however the calls of concurrent callers interleave.
CexC24_OracleRequestsSpaced == callLog.requests >= 2 => callLog.gap >= 500

\* C25: verifyWithLLM returns a boolean however its request ends; when the
\* request is rejected, is answered with a status that is not OK or with
\* success = false, the boolean is the verdict of the rule-based check
\* for the same title and content; the caller goes on.
ThmC25_OracleFailureFallsBack ==
  /\ \A c \in Callers : llm.callers[c].pc \in {"idle", "sleep", "fetch"}
  /\ callLog.outcome # "none" =>
       /\ callLog.result \in BOOLEAN
       /\ callLog.outcome \in {"success false", "not ok", "rejected"} =>
            callLog.result = verifyWithAlternativeLLM(callLog.title, callLog.content)

\* The request of a call was rejected and the call returned true, the
\* verdict of the rule-based check for its item; its caller then went on
\* to its next call, whose request is under way.
WitC25_RejectedRequestAccepted ==
  /\ callLog.outcome = "rejected" /\ callLog.result
  /\ verifyWithAlternativeLLM(callLog.title, callLog.content)
  /\ \E c \in Callers : llm.callers[c].calls = 1 /\ llm.callers[c].pc = "fetch"

(***************************************************************************)
(* SpecRevisit: the runs of SpecRunTwice over a site whose pages are       *)
(* edited between two runs.                                                *)
(***************************************************************************)
\* The content the pages of the site have before and after the edit.
HtmlBefore == <<1>>
HtmlAfter == <<2>>

\* The publisher edits the pages of the site while no run is under way:
\* from now on every fetch returns the new content.
SiteEdit ==
  /\ pc = "idle" /\ env.htmls = {HtmlBefore}
  /\ env' = [env EXCEPT !.htmls = {HtmlAfter}]
  /\ UNCHANGED <<app, now, storeVars, mergeLog, pc, crawlVars, runVars, selInput,
                 llm, callLog, netLog>>

NextRevisit == NextRuns \/ SiteEdit

SpecRevisit == InitRunTwice /\ [][NextRevisit]_vars

\* What a fetch of a page returns at this instant.
CurrentHtml == CHOOSE html \in env.htmls : TRUE

\* C26: when a run after the first has selected its pages, no page it
\* left out as cached has a content whose hash differs from the hash of
\* its cache entry.
CexC26_ChangedPageSelected ==
  (pc = "analyze" /\ analyzed = 0 /\ runObs.n >= 2) =>
    \A u \in Range(rescrapeInfo.cachedPages) :
      ~hasPageChanged(cacheMap, u, CurrentHtml)

(***************************************************************************)
(* SpecReset: runs in either mode over the site of SpecRunTwice, between   *)
(* which the user clicks 'Reset All Data' and confirms.                    *)
(***************************************************************************)
InitReset ==
  /\ env = [links |-> ChainLinks, faults |-> {}, modes |-> BOOLEAN,
            pagePosts |-> {<<>>, <<Candidate("p1", "t1")>>},
            htmls |-> {<<1>>}, times |-> {0, 168}]
  /\ InitIdle

\* A reset that also clears the page cache (clearPageCache).
resetAllDataAndCache(enabled, outcome, posts, table, stored) ==
  [sbPosts |-> IF enabled /\ outcome = "ok" THEN {} ELSE posts,
   lsPosts |-> <<>>,
   sbCache |-> IF enabled THEN {} ELSE table,
   lsCache |-> EmptyMap]

\* resetAllData(): delete every row of the Post table when Supabase is
\* configured (an error is logged), then remove the localStorage key of the
\* posts.  The page cache (its table and its localStorage object) is given
\* so that the result names all four stores; the function does not touch
\* it.
resetAllData(enabled, outcome, posts, table, stored) ==
  [sbPosts |-> IF enabled /\ outcome = "ok" THEN {} ELSE posts,
   lsPosts |-> <<>>,
   sbCache |-> table,
   lsCache |-> stored]

\* handleReset, confirmed by the user while no run is under way: await
\* resetAllData(), then the state of the component is cleared.
handleReset ==
  /\ pc = "idle" /\ callLog.op = "none"
  /\ \E outcome \in RequestOutcomes("posts") :
       LET stores == resetAllData(sbEnabled, outcome, sbPosts, sbCache, lsCache)
       IN /\ sbPosts' = stores.sbPosts /\ lsPosts' = stores.lsPosts
          /\ sbCache' = stores.sbCache /\ lsCache' = stores.lsCache
  /\ app' = [app EXCEPT !.scrapeStatus = "reset", !.error = FALSE]
  /\ callLog' = [op |-> "resetAllData", n |-> runObs.n]
  /\ UNCHANGED <<env, now, sbEnabled, mergeLog, pc, crawlVars, runVars, selInput,
                 llm, netLog>>

NextReset == NextRuns \/ handleReset

SpecReset == InitReset /\ [][NextReset]_vars

\* A reset was done and no run has started since.
AfterReset == callLog.op = "resetAllData" /\ callLog.n = runObs.n

\* The first run after a reset is a full one and has selected its pages.
FullRunAfterReset ==
  /\ callLog.op = "resetAllData" /\ runObs.n = callLog.n + 1
  /\ ~mode /\ pc = "analyze" /\ analyzed = 0

\* C27: after a reset the Post store and the page cache are empty, and
\* the full run that follows selects every page its crawl discovered.
CexC27_ResetClearsPostsAndCache ==
  /\ AfterReset => (StoredPosts = {} /\ DOMAIN PersistedCache = {})
  /\ FullRunAfterReset => rescrapeInfo.cachedPages = <<>>

\* The posts are gone after a reset.
ResetClearsPosts == AfterReset => StoredPosts = {}

\* The full run that follows a reset selects every page.
ResetRunSelectsAll == FullRunAfterReset => rescrapeInfo.cachedPages = <<>>

\* C30: when a run completes (its caller is done with what it returned),
\* every stored post discovered more than 24 hours before is Existing.
CexC30_AgingOnEveryRun ==
  [][(pc \in {"return", "merge"} /\ pc' = "idle") =>
       \A p \in StoredPosts' :
         now' - p.ts > GraceHours => p.status = "Existing"]_vars

\* The last savePosts(updatedData) call was served: the upsert into the
\* table succeeded, or the array was written to localStorage.
SaveServed ==
  \/ sbEnabled /\ {PostToRow(p) : p \in Range(mergeLog.merged)} \subseteq sbPosts
  \/ lsPosts = mergeLog.merged

\* C31: after addNewPosts has called savePosts(updatedData) and a backend
\* has served the call, every post of updatedData is in what loadAllPosts
\* returns, whether its query to the table succeeds or it falls back to
\* localStorage.
CexC31_SavedPostsLoaded ==
  (mergeLog.n > 0 /\ SaveServed) =>
    \A outcome \in RequestOutcomes("posts") :
      Range(mergeLog.merged) \subseteq
        Range(loadAllPosts(sbEnabled, outcome, sbPosts, lsPosts))

(***************************************************************************)
(* SpecNotify: the auto-refresh runs of SpecRunTwice with what             *)
(* runAutoRefresh does once scrapeBOSAWebsite(true) has returned posts.    *)
(***************************************************************************)
\* JavaScript's undefined.
Undefined == [kind |-> "undefined"]

\* A Promise that will resolve to value.
PromiseOf(value) == [kind |-> "promise", value |-> value]

\* await addNewPosts(newPosts): the value the Promise resolves to.
AddNewPostsAwaited(value) == value

\* const result = addNewPosts(newPosts): excelHandler's addNewPosts is an
\* async function and the call is not awaited, so result is the Promise.
AddNewPostsResult(value) == PromiseOf(value)

\* result.stats: a Promise has no property stats.
StatsOf(result) ==
  IF "stats" \in DOMAIN result THEN result.stats ELSE Undefined

NoNotifyLog ==
  [op         |-> "none",
   email      |-> FALSE,     \* emailAddress && emailAddress.trim()
   permission |-> FALSE,     \* Notification.permission === 'granted'
   status     |-> "",        \* scrapeStatus as runAutoRefresh left it
   emailed    |-> <<>>,      \* the posts of the request to /send-email
   emails     |-> 0,         \* requests to /send-email
   desktop    |-> 0]         \* the count in the body of the Notification

\* runAutoRefresh from "const result = ..." on: reading result.stats.new
\* throws a TypeError when result.stats is undefined, and the catch block
\* sets the status; sendEmailNotification catches whatever its request
\* does, so the outcome of the request changes nothing here.
runAutoRefreshAfter(result, newPosts, email, permission) ==
  LET stats == StatsOf(result)
  IN IF stats = Undefined
     THEN [NoNotifyLog EXCEPT !.op = "runAutoRefresh", !.email = email,
                              !.permission = permission, !.status = "failed"]
     ELSE IF stats.new > 0
     THEN [op         |-> "runAutoRefresh",
           email      |-> email,
           permission |-> permission,
           status     |-> "found",
           emailed    |-> IF email THEN newPosts ELSE <<>>,
           emails     |-> IF email THEN 1 ELSE 0,
           desktop    |-> IF permission THEN stats.new ELSE 0]
     ELSE [NoNotifyLog EXCEPT !.op = "runAutoRefresh", !.email = email,
                              !.permission = permission, !.status = "none"]

InitNotify ==
  /\ env = [links |-> ChainLinks, faults |-> {}, modes |-> {TRUE},
            pagePosts |-> {<<>>, <<Candidate("p1", "t1")>>},
            htmls |-> {<<1>>}, times |-> {0, 168}]
  /\ now = 0 /\ InitStore /\ InitLocals /\ selInput = NoSelInput /\ pc = "idle"
  /\ callLog = NoNotifyLog

\* runAutoRefresh after its await, when the run returned posts: the
\* addNewPosts call it started runs to its end, whatever the handler does
\* with the Promise.
AutoRefreshAfterRun ==
  /\ pc = "merge"
  /\ AddNewPostsCall(allPosts)
  /\ \E email \in BOOLEAN, permission \in BOOLEAN :
       callLog' = runAutoRefreshAfter(AddNewPostsResult(mergeLog'), allPosts,
                                      email, permission)
  /\ allPosts' = <<>>
  /\ pc' = "idle"
  /\ UNCHANGED <<app, env, now, sbEnabled, sbCache, lsCache, crawlVars, mode, cacheMap,
                 visitedUrls, rescrapeInfo, pagesToCheck, analyzed, seenInThisScrape,
                 selInput, llm, netLog, runObs, cacheObs>>

NextNotify ==
  \/ StartRun
  \/ LoadCache
  \/ LoadVisited
  \/ (CrawlSkip /\ NonCrawlUnchanged)
  \/ (CrawlFetchFail /\ NonCrawlUnchanged)
  \/ (CrawlFetchOk /\ NonCrawlUnchanged)
  \/ (CrawlReturn /\ NonCrawlUnchanged)
  \/ SelectPages
  \/ AnalyzeFetchFail
  \/ AnalyzeScrapeThrows
  \/ AnalyzeOk
  \/ SaveCache
  \/ ReturnPosts
  \/ AutoRefreshAfterRun
  \/ Tick

SpecNotify == InitNotify /\ [][NextNotify]_vars

\* C32: when the addNewPosts call of an auto-refresh run has added a new
\* post, the handler reports the posts found, has sent the posts to
\* /send-email if an address is configured, and has shown a Notification
\* with the count if that is permitted.
CexC32_NewPostsNotified ==
  (callLog.op = "runAutoRefresh" /\ mergeLog.stats.new > 0) =>
    /\ callLog.status = "found"
    /\ callLog.email => (callLog.emails = 1 /\ Len(callLog.emailed) > 0)
    /\ callLog.permission => callLog.desktop = mergeLog.stats.new

(***************************************************************************)
(* SpecDedup: two incremental runs more than seven days apart over the     *)
(* site A -> B -> C -> D, whose pages show items that share URLs within a  *)
(* page, across pages and with the Post store.                             *)
(***************************************************************************)
\* What a page can show: nothing, one URL under two titles, that URL under
\* the second title, or another URL.
DedupLists ==
  {<<>>,
   <<Candidate(PostUrlSeq[1], "t1"), Candidate(PostUrlSeq[1], "t2")>>,
   <<Candidate(PostUrlSeq[1], "t2")>>,
   <<Candidate(PostUrlSeq[2], "t1")>>}

InitDedup ==
  /\ env = [links |-> ChainLinks, faults |-> {}, modes |-> {TRUE},
            pagePosts |-> DedupLists, htmls |-> {<<1>>}, times |-> {0, 169}]
  /\ InitIdle

SpecDedup == InitDedup /\ [][NextRuns]_vars

RECURSIVE FoundUpTo(_)
\* The items scrapePage returned for the first k pages of pagesToCheck, in
\* the order of the analysis.
FoundUpTo(k) ==
  IF k = 0 THEN <<>>
  ELSE FoundUpTo(k - 1) \o
         (IF pagesToCheck[k] \in DOMAIN runObs.yields
          THEN runObs.yields[pagesToCheck[k]] ELSE <<>>)

Found == FoundUpTo(analyzed)

\* The URLs of the Post store.
StoredUrls == {p.url : p \in StoredPosts}

\* The positions of Found whose item is the first of its URL and whose URL
\* the Post store does not hold.
FirstNew ==
  {j \in 1..Len(Found) :
     /\ Found[j].url \notin StoredUrls
     /\ \A k \in 1..(j - 1) : Found[k].url # Found[j].url}

CexC34_HitRateReported ==
  pc = "selected" =>
    /\ Len(rescrapeInfo.newPages) + Len(rescrapeInfo.cachedPages)
         = rescrapeInfo.totalPages
    /\ rescrapeInfo.totalPages = Len(selInput.urls)
    /\ \A u \in Range(selInput.urls) :
         (u \in Range(rescrapeInfo.newPages)) # (u \in Range(rescrapeInfo.cachedPages))
    /\ ~rescrapeInfo.cacheHitRate.nan
    /\ rescrapeInfo.cacheHitRate.tenths \in 0..1000
    /\ LET diff == rescrapeInfo.cacheHitRate.tenths * rescrapeInfo.totalPages
                     - 1000 * Len(rescrapeInfo.cachedPages)
       IN 2 * diff <= rescrapeInfo.totalPages /\ -2 * diff <= rescrapeInfo.totalPages

\* The same without the empty list.
HitRateOfNonEmptyList ==
  (pc = "selected" /\ selInput.urls # <<>>) => CexC34_HitRateReported

\* The pending timers of the auto-refresh scheduler: the one the effect's
\* cleanup can clear, and those set from inside a timer callback.
PendingTimers == (IF app.ownedTimer = "none" THEN 0 ELSE 1) + app.leakedTimers

\* C35: the auto-refresh scheduler never has more than one pending timer,
\* and no auto-refresh run starts while the toggle is off.
CexC35_TimersCancelled ==
  /\ [](PendingTimers <= 1)
  /\ [][app'.autoRuns > app.autoRuns => app.autoRefreshEnabled]_vars

\* The first half of C35 alone.
AtMostOneTimer == PendingTimers <= 1

\* The second half of C35 alone.
NoRunWhileOff == [][app'.autoRuns > app.autoRuns => app.autoRefreshEnabled]_vars

(***************************************************************************)
(* SpecOverlap: two addNewPosts calls under way at once (two handlers      *)
(* whose runs returned posts), each with its await of loadAllPosts and its *)
(* await of savePosts, over a store whose requests succeed.                *)
(***************************************************************************)
MergeCalls == 1..2

\* The other of the two calls.
OtherCall(c) == 3 - c

\* The lists the two calls are handed: the handlers call addNewPosts with
\* lists that are not empty, and no list here repeats a URL.
OverlapLists ==
  {<<Candidate(PostUrlSeq[1], "t1")>>, <<Candidate(PostUrlSeq[2], "t1")>>,
   <<Candidate(PostUrlSeq[1], "t1"), Candidate(PostUrlSeq[2], "t1")>>}

\* A call that has not started: its position, the updatedData it will
\* save and the entries it admitted.
NoMergeCall == [pc |-> "idle", updatedData |-> <<>>, newPosts |-> <<>>]

NoOverlapLog ==
  [calls      |-> [c \in MergeCalls |-> NoMergeCall],
   overlapped |-> FALSE]   \* both calls had loaded before either saved

InitOverlap ==
  /\ env = [links |-> ChainLinks, faults |-> {}, modes |-> {TRUE},
            pagePosts |-> OverlapLists, htmls |-> {<<1>>}, times |-> {0, 25}]
  /\ now = 0 /\ InitStore /\ InitLocals /\ selInput = NoSelInput /\ pc = "idle"
  /\ callLog = NoOverlapLog

OverlapUnchanged ==
  UNCHANGED <<app, env, now, sbEnabled, sbCache, lsCache, mergeLog, pc, crawlVars,
              runVars, selInput, llm, netLog>>

\* addNewPosts(newPosts) up to its second await: loadAllPosts is awaited,
\* then the entries are built and aged without interruption.
AddNewPostsLoad(c) ==
  /\ callLog.calls[c].pc = "idle"
  /\ \E cands \in PagePostLists, loadOutcome \in RequestOutcomes("posts") :
       LET existingPosts == loadAllPosts(sbEnabled, loadOutcome, sbPosts, lsPosts)
           result        == addNewPosts(existingPosts, cands, now)
       IN callLog' =
            [calls      |-> [callLog.calls EXCEPT ![c] =
                               [pc          |-> "loaded",
                                updatedData |-> result.updatedData,
                                newPosts    |-> result.newPosts]],
             overlapped |-> callLog.overlapped
                              \/ callLog.calls[OtherCall(c)].pc = "loaded"]
  /\ UNCHANGED <<sbPosts, lsPosts>>
  /\ OverlapUnchanged

\* addNewPosts from its second await on: await savePosts(updatedData).
AddNewPostsSave(c) ==
  /\ callLog.calls[c].pc = "loaded"
  /\ \E saveOutcome \in RequestOutcomes("posts"), lsOk \in SetItemOutcomes("posts") :
       /\ sbPosts' = savePostsTable(sbEnabled, saveOutcome, sbPosts,
                                    callLog.calls[c].updatedData)
       /\ lsPosts' = savePostsLocal(lsPosts, callLog.calls[c].updatedData, lsOk)
  /\ callLog' = [callLog EXCEPT !.calls[c].pc = "done"]
  /\ OverlapUnchanged

NextOverlap ==
  \/ \E c \in MergeCalls : AddNewPostsLoad(c)
  \/ \E c \in MergeCalls : AddNewPostsSave(c)
  \/ Tick

SpecOverlap == InitOverlap /\ [][NextOverlap]_vars

\* Both calls have returned.
BothDone == \A c \in MergeCalls : callLog.calls[c].pc = "done"

\* C36: when two addNewPosts calls that had both loaded before either
\* saved have returned, the Post store holds every entry either of them
\* admitted and no URL twice.
CexC36_OverlappingMergesKeepPosts ==
  (BothDone /\ callLog.overlapped) =>
    /\ \A c \in MergeCalls :
         \A i \in 1..Len(callLog.calls[c].newPosts) :
           callLog.calls[c].newPosts[i].url \in {p.url : p \in StoredPosts}
    /\ ThmC2_UniquePostUrls

\* The same for calls that follow one another.
SequentialMergesKeepPosts ==
  (BothDone /\ ~callLog.overlapped) =>
    /\ \A c \in MergeCalls :
         \A i \in 1..Len(callLog.calls[c].newPosts) :
           callLog.calls[c].newPosts[i].url \in {p.url : p \in StoredPosts}
    /\ ThmC2_UniquePostUrls

\* The same for overlapping calls over the table.
OverlappingMergesOverTable == sbEnabled => CexC36_OverlappingMergesKeepPosts

(***************************************************************************)
(* SpecRepeat: incremental runs, one after the other without end, over an  *)
(* unchanged site of 24 pages: the base page links to two hub pages and to *)
(* six others, and the hubs link to the remaining fifteen.  Some pages of  *)
(* the site are down: every request for them fails, on every run; every    *)
(* other request is answered.  Supabase is not configured: the cache is   *)
(* kept in localStorage.  A run in progress goes on and a new run is       *)
(* started whenever none is under way.                                     *)
(***************************************************************************)
\* The pages of the site, in the order in which a crawl visits them: the
\* base page, two hubs, IncrementalPageCap leaves and one last leaf.
RepeatSite == Take(SiteUrlSeq, IncrementalPageCap + 4)

\* The a[href] list that names the pages from-th to to-th of the site.
LinkList(from, to) ==
  [i \in 1..(to - from + 1) |-> [url |-> RepeatSite[from + i - 1], kind |-> "page"]]

\* The base page links to the hubs and to the first six leaves, the first
\* hub to the next seven leaves, the second hub to the leaves that remain.
RepeatLinks ==
  [u \in Range(SiteUrlSeq) |->
     IF u = RepeatSite[1] THEN {LinkList(2, 9)}
     ELSE IF u = RepeatSite[2] THEN {LinkList(10, 16)}
     ELSE IF u = RepeatSite[3] THEN {LinkList(17, Len(RepeatSite))}
     ELSE {<<>>}]

\* The pages that are down in the second world: the IncrementalPageCap
\* leaves a crawl visits first.  The last leaf is up.
DownUrls == {RepeatSite[i] : i \in 4..(IncrementalPageCap + 3)}

InitRepeat ==
  /\ \E down \in {{}, DownUrls} :
       env = [links |-> RepeatLinks, faults |-> {}, modes |-> {TRUE},
              pagePosts |-> {<<>>}, htmls |-> {<<1>>}, times |-> {0, 1},
              down |-> down]
  /\ InitIdle
  /\ ~sbEnabled

\* A caller invokes scrapeBOSAWebsite(true); the observer counts the runs
\* up to MaxRuns.
StartRepeatedRun ==
  /\ pc = "idle"
  /\ \E m \in env.modes : mode' = m
  /\ pc' = "loadCache"
  /\ runObs' = [NoRunObs EXCEPT !.n = Min(runObs.n + 1, MaxRuns), !.start = now]
  /\ netLog' = NoNetLog
  /\ UNCHANGED <<app, env, now, storeVars, mergeLog, crawlVars, cacheMap, visitedUrls,
                 rescrapeInfo, pagesToCheck, analyzed, seenInThisScrape, allPosts,
                 selInput, llm, callLog, cacheObs>>

\* The steps of the program: every step but the passing of time.
RepeatStep ==
  \/ StartRepeatedRun
  \/ LoadCache
  \/ LoadVisited
  \/ (CrawlFetchOk /\ Head(toVisit).url \notin env.down /\ NonCrawlUnchanged)
  \/ (CrawlFetchFail /\ Head(toVisit).url \in env.down /\ NonCrawlUnchanged)
  \/ (CrawlReturn /\ NonCrawlUnchanged)
  \/ SelectPages
  \/ (AnalyzeOk /\ pagesToCheck[analyzed + 1] \notin env.down)
  \/ (AnalyzeFetchFail /\ pagesToCheck[analyzed + 1] \in env.down)
  \/ SaveCache
  \/ ReturnPosts

NextRepeat == RepeatStep \/ Tick

SpecRepeat == InitRepeat /\ [][NextRepeat]_vars /\ WF_vars(RepeatStep)

\* The pages of the site that are up.
UpUrls == Range(RepeatSite) \ env.down

\* C37: under repeated incremental runs, every page of the site that is
\* up is eventually in the persisted cache, whichever pages are down.
CexC37_UpPagesEventuallyCached ==
  <>(UpUrls \subseteq DOMAIN PersistedCache)

\* The same for the world in which no page is down.
AllUpEventuallyCached ==
  (env.down = {}) => <>(UpUrls \subseteq DOMAIN PersistedCache)

(***************************************************************************)
(* SpecRetry: two runs, each in either mode, over the site A -> B -> C ->  *)
(* D, at instants more than seven days apart, with a store whose requests  *)
(* succeed.  Every fetch and every parse of the analysis phase can fail.   *)
(***************************************************************************)
InitRetry ==
  /\ env = [links |-> ChainLinks, faults |-> {}, modes |-> BOOLEAN,
            pagePosts |-> {<<>>, <<Candidate("p1", "t1")>>},
            htmls |-> {<<1>>}, times |-> {0, 169}]
  /\ InitIdle

SpecRetry == InitRetry /\ [][NextRuns]_vars

\* isIncrementalMode ? 7 : 30
MaxAgeDaysOf(isIncrementalMode) ==
  IF isIncrementalMode THEN IncrementalMaxAgeDays ELSE FullMaxAgeDays

\* The URLs whose iteration of the analysis loop ended in "continue": the
\* fetch returned nothing, or scrapePage threw.
FailedUrls == DOMAIN runObs.processed \ DOMAIN runObs.yields

\* The iteration of the analysis loop that this step takes fails.
AnalysisFails ==
  /\ pc = "analyze" /\ analyzed' = analyzed + 1
  /\ pagesToCheck[analyzed + 1] \notin DOMAIN runObs'.yields

\* The change detection of a run in the given mode, started at instant t
\* over the cache as it is persisted now, selects the URL when the run's
\* crawl returns it.
SelectedByRun(url, isIncrementalMode, t) ==
  getPagesToRescrape(PersistedCache, <<url>>, MaxAgeDaysOf(isIncrementalMode), t).newPages
    = <<url>>

\* The failed iteration leaves the cache map and the collected posts as
\* they were.
FailureLeavesNoTrace ==
  [][AnalysisFails => cacheMap' = cacheMap /\ allPosts' = allPosts]_vars

\* C38 as stated: a failed fetch or parse of a selected URL leaves its
\* cache entry as it was and yields no item, and the change detection of
\* the next run, whatever its mode and whenever it starts, selects the URL.
CexC38_FailedPageSelectedAgain ==
  /\ FailureLeavesNoTrace
  /\ [](pc = "return" =>
          \A u \in FailedUrls : \A m \in env.modes : \A t \in env.times :
            t >= now => SelectedByRun(u, m, t))

\* C38: a failed fetch or parse of a selected URL leaves its cache entry
\* as it was and yields no item, and the change detection of the next run
\* selects the URL when that run's staleness window is no longer than the
\* failed run's; a URL without an entry is selected by every run.
ThmC38_FailedPageSelectedWithinWindow ==
  /\ FailureLeavesNoTrace
  /\ [](pc = "return" =>
          \A u \in FailedUrls : \A m \in env.modes : \A t \in env.times :
            /\ t >= now
            /\ \/ u \notin DOMAIN PersistedCache
               \/ MaxAgeDaysOf(m) <= MaxAgeDaysOf(mode)
            => SelectedByRun(u, m, t))

\* The second run failed on page B, whose entry of the first run is still
\* persisted, and on page C, which never had an entry.
WitC38_StaleAndAbsentFailed ==
  /\ pc = "return" /\ runObs.n = 2
  /\ {PageUrlSeq[2], PageUrlSeq[3]} \subseteq FailedUrls
  /\ PageUrlSeq[2] \in DOMAIN PersistedCache
  /\ PersistedCache[PageUrlSeq[2]].lastScraped = 0
  /\ PageUrlSeq[3] \notin DOMAIN PersistedCache

(***************************************************************************)
(* SpecEdit: the runs of SpecRunTwice over a site whose pages are edited   *)
(* once, at any moment, a run in progress included.  A page shows no post  *)
(* before the edit and one post after it.  While the edit is being         *)
(* published a request is answered with the content before or after it,    *)
(* and of the two requests of one iteration the second is never answered   *)
(* with the older content.                                                 *)
(***************************************************************************)
\* What parseHTMLContent returns for the two contents of a page.
PostsBefore == <<>>
PostsAfter == <<Candidate("p1", "t1")>>

\* The versions of a page: its content and the posts that content shows.
SiteVersions ==
  {[html |-> HtmlBefore, posts |-> PostsBefore],
   [html |-> HtmlAfter, posts |-> PostsAfter]}

InitEdit ==
  /\ env = [links |-> ChainLinks, faults |-> {}, modes |-> {TRUE},
            pagePosts |-> {PostsBefore}, htmls |-> {HtmlBefore}, times |-> {0, 1}]
  /\ InitIdle

\* The publisher starts to publish the edit.
EditBegins ==
  /\ env.htmls = {HtmlBefore}
  /\ env' = [env EXCEPT !.htmls = {HtmlBefore, HtmlAfter},
                        !.pagePosts = {PostsBefore, PostsAfter}]
  /\ UNCHANGED <<app, now, storeVars, mergeLog, pc, crawlVars, runVars, selInput,
                 llm, callLog, netLog>>

\* The edit is published: from now on every request is answered with the
\* new content.
EditEnds ==
  /\ env.htmls = {HtmlBefore, HtmlAfter}
  /\ env' = [env EXCEPT !.htmls = {HtmlAfter}, !.pagePosts = {PostsAfter}]
  /\ UNCHANGED <<app, now, storeVars, mergeLog, pc, crawlVars, runVars, selInput,
                 llm, callLog, netLog>>

\* The iteration of the analysis loop that this step completes did not
\* get the new content from its own fetch and the old one from the fetch
\* of scrapePage.
FetchesInOrder ==
  (pc = "analyze" /\ analyzed' = analyzed + 1
     /\ pagesToCheck[analyzed + 1] \in DOMAIN runObs'.yields) =>
    ~ /\ cacheMap'[pagesToCheck[analyzed + 1]].contentHash = generateContentHash(HtmlAfter)
      /\ runObs'.yields[pagesToCheck[analyzed + 1]] = PostsBefore

NextEdit ==
  \/ StartRun
  \/ LoadCache
  \/ LoadVisited
  \/ (CrawlSkip /\ NonCrawlUnchanged)
  \/ (CrawlFetchFail /\ NonCrawlUnchanged)
  \/ (CrawlFetchOk /\ NonCrawlUnchanged)
  \/ (CrawlReturn /\ NonCrawlUnchanged)
  \/ SelectPages
  \/ AnalyzeFetchFail
  \/ AnalyzeScrapeThrows
  \/ (AnalyzeOk /\ FetchesInOrder)
  \/ SaveCache
  \/ ReturnPosts
  \/ MergeRun
  \/ Tick
  \/ EditBegins
  \/ EditEnds

SpecEdit == InitEdit /\ [][NextEdit]_vars

\* The entry describes one version of the page.
DescribesOneVersion(entry) ==
  \E v \in SiteVersions :
    /\ entry.contentHash = generateContentHash(v.html)
    /\ entry.postsCount = Len(v.posts)
    /\ entry.hasEInvoicingContent = (Len(v.posts) > 0)

\* C39: every cache entry of a run, and every persisted one, has its
\* contentHash, its hasEInvoicingContent and its postsCount computed from
\* one and the same content of the page.
CexC39_EntryDescribesOneFetch ==
  /\ \A u \in DOMAIN cacheMap : DescribesOneVersion(cacheMap[u])
  /\ \A u \in DOMAIN PersistedCache : DescribesOneVersion(PersistedCache[u])

\* The same for the entries written while no edit is being published.
EntryOutsideEditDescribesOneFetch ==
  [][(pc = "analyze" /\ analyzed' = analyzed + 1 /\ Cardinality(env.htmls) = 1
        /\ pagesToCheck[analyzed + 1] \in DOMAIN runObs'.yields)
       => DescribesOneVersion(cacheMap'[pagesToCheck[analyzed + 1]])]_vars

====
